---- MODULE Spec2Model ----
(***************************************************************************)
(* CourseShop backend: the subscription / promo-code flow, the JWT         *)
(* middleware and the auth service, as a state machine over the three      *)
(* tables of schema.sql.  Every await on pool.query is one atomic step of  *)
(* the database; the synchronous JavaScript between two awaits runs        *)
(* within the step that delivers the query's result.                       *)
(*                                                                         *)
(* Money is kept in integer cents (DECIMAL(10,2)); the IEEE-754 double     *)
(* arithmetic of calculateDiscountedPrice is computed exactly from the     *)
(* cents.  Time is counted in days.                                        *)
(***************************************************************************)
EXTENDS Integers, Sequences, FiniteSets, TLC

VARIABLES users, courses, subscriptions, now, reqs, authReqs, client, page

vars == <<users, courses, subscriptions, now, reqs, authReqs, client, page>>

(***************************************************************************)
(* Bounds of the model.                                                    *)
(***************************************************************************)
NumReqs == 2            \* concurrent requests on the subscription routes
NumMwReqs == 1          \* requests of the middleware specification
NumAuthReqs == 2        \* concurrent requests on the auth routes
MaxOps == 2             \* requests of the specifications that serve every route
MaxOpsTime == 1         \* last day of the specification that serves every route
MaxTime == 9            \* last day the clock reaches

(***************************************************************************)
(* Program constants.                                                      *)
(***************************************************************************)
VALID_PROMO_CODE == "BFSALE25"
JWT_SECRET == "dev-secret-key-change-in-production"
TOKEN_DAYS == 7         \* expiresIn: '7d'

(***************************************************************************)
(* The seeded tables (db/seed.ts): two users, a free and a paid course.    *)
(***************************************************************************)
UserIds == {"u1", "u2"}
FreeCourse == "c-free"
PaidCourse == "c-paid"
SeedCourses == (FreeCourse :> 0) @@ (PaidCourse :> 9999)

\* Strings whose characters the code looks at (emails, passwords) are
\* sequences of one-character strings.  The seeded addresses
\* test1@example.com and test2@example.com are written t1@e.co and t2@e.co.
Test1Email == <<"t", "1", "@", "e", ".", "c", "o">>
Test2Email == <<"t", "2", "@", "e", ".", "c", "o">>
Password123 == <<"p", "a", "s", "s", "w", "o", "r", "d", "1", "2", "3">>

\* bcrypt.hash(password, SALT_ROUNDS) and bcrypt.compare.
bcryptHash(password) == [alg |-> "bcrypt", of |-> password]
bcryptCompare(password, hash) == hash.of = password

UserRow(id, email, password) == [id |-> id, email |-> email, password |-> password]
SeedUsers == {UserRow("u1", Test1Email, bcryptHash(Password123)),
              UserRow("u2", Test2Email, bcryptHash(Password123))}

\* A well-formed uuid that names no course, and a string that is no uuid.
NoCourse == "c-none"
NotUuid == "not-a-uuid"
UuidStrings == {FreeCourse, PaidCourse, NoCourse}
CourseIdInputs == UuidStrings \cup {NotUuid}

\* promoCode of the request body: absent, or a string.
NoPromo == [present |-> FALSE, code |-> ""]
Promo(s) == [present |-> TRUE, code |-> s]
PromoInputs == {NoPromo, Promo(""), Promo(VALID_PROMO_CODE), Promo("bfsale25"),
                Promo(" BFSALE25")}

(***************************************************************************)
(* SubscriptionService: promo code and price.                              *)
(***************************************************************************)
\* const PROMO_DISCOUNT = 0.5, as a percentage.
PROMO_DISCOUNT == 50

\* validatePromoCode comparing without regard to case or surrounding blanks.
validatePromoCodeLoose(code) ==
  IF code \in {VALID_PROMO_CODE, "bfsale25", " BFSALE25"}
    THEN [valid |-> TRUE, discount |-> PROMO_DISCOUNT]
    ELSE [valid |-> FALSE, discount |-> 0]

validatePromoCode(code) ==
  IF code = VALID_PROMO_CODE
    THEN [valid |-> TRUE, discount |-> PROMO_DISCOUNT]
    ELSE [valid |-> FALSE, discount |-> 0]

RECURSIVE Pow2(_)
Pow2(n) == IF n = 0 THEN 1 ELSE 2 * Pow2(n - 1)

RECURSIVE Pow2Mod25(_)
Pow2Mod25(n) == IF n = 0 THEN 1 ELSE (2 * Pow2Mod25(n - 1)) % 25

\* floor(log2(cents / 100)) for cents >= 100: the largest e with 100 * 2^e <= cents.
RECURSIVE ExpUp(_, _)
ExpUp(cents, e) == IF 100 * Pow2(e + 1) <= cents THEN ExpUp(cents, e + 1) ELSE e

\* -floor(log2(cents / 100)) for 0 < cents < 100: the least s with cents * 2^s >= 100.
RECURSIVE ExpDown(_, _)
ExpDown(cents, s) == IF cents * Pow2(s) >= 100 THEN s ELSE ExpDown(cents, s + 1)

\* parseFloat of the DECIMAL(10,2) text of `cents`: the double nearest to
\* cents/100.  Its 53-bit significand is cents * 2^(52-e) / 100 rounded to an
\* integer, e the binary exponent; the fraction dropped is
\* ((cents * 2^(50-e)) mod 25) / 25.  The result is the sign of
\* parseFloat(text) - cents/100: -1 rounded down, 0 exact, 1 rounded up.
ParseFloatError(cents) ==
  IF cents = 0 THEN 0
  ELSE LET k == IF cents >= 100 THEN 50 - ExpUp(cents, 0) ELSE 50 + ExpDown(cents, 0)
           r == ((cents % 25) * Pow2Mod25(k)) % 25
       IN  IF r = 0 THEN 0 ELSE IF r <= 12 THEN -1 ELSE 1

\* (x * 0.5).toFixed(2) for x = parseFloat(cents/100), in cents.  Halving a
\* double is exact; toFixed takes the integer n with n/100 nearest the exact
\* value of the double and, of two equally near, the larger.
HalfToFixed2(cents) ==
  IF cents % 2 = 0 THEN cents \div 2
  ELSE IF ParseFloatError(cents) >= 0 THEN (cents + 1) \div 2
  ELSE (cents - 1) \div 2

calculateDiscountedPrice(originalPrice, discount) ==
  IF discount = 0 THEN originalPrice ELSE HalfToFixed2(originalPrice)

(***************************************************************************)
(* AuthService: tokens.  A token string is either a JWT (payload userId,   *)
(* iat, exp, and the key that signed it) or something that is no JWT.      *)
(***************************************************************************)
NotAJwt == [fmt |-> "garbage", userId |-> "", iat |-> 0, exp |-> 0, key |-> ""]

\* jwt.sign(payload, key, { expiresIn: '7d' }) at time t.
jwtSign(userId, key, t) ==
  [fmt |-> "jwt", userId |-> userId, iat |-> t, exp |-> t + TOKEN_DAYS, key |-> key]

\* generateToken signing with a key that verifyToken does not use.
generateTokenOtherKey(userId, t) == jwtSign(userId, "another-secret", t)

generateToken(userId, t) == jwtSign(userId, JWT_SECRET, t)

\* jwt.verify accepting a token at the instant it expires.
jwtVerifyLate(token, secret, t) ==
  IF token.fmt # "jwt"
    THEN [threw |-> TRUE, name |-> "JsonWebTokenError", userId |-> ""]
  ELSE IF token.key # secret
    THEN [threw |-> TRUE, name |-> "JsonWebTokenError", userId |-> ""]
  ELSE IF t > token.exp
    THEN [threw |-> TRUE, name |-> "TokenExpiredError", userId |-> ""]
  ELSE [threw |-> FALSE, name |-> "", userId |-> token.userId]

\* jwt.verify(token, secret) at time t: the decoded payload, or the error thrown.
jwtVerify(token, secret, t) ==
  IF token.fmt # "jwt"
    THEN [threw |-> TRUE, name |-> "JsonWebTokenError", userId |-> ""]
  ELSE IF token.key # secret
    THEN [threw |-> TRUE, name |-> "JsonWebTokenError", userId |-> ""]
  ELSE IF t >= token.exp
    THEN [threw |-> TRUE, name |-> "TokenExpiredError", userId |-> ""]
  ELSE [threw |-> FALSE, name |-> "", userId |-> token.userId]

\* verifyToken without its try/catch.
verifyTokenUncaught(token, t) ==
  LET decoded == jwtVerify(token, JWT_SECRET, t)
  IN  IF decoded.threw
        THEN [outcome |-> "throws", userId |-> ""]
        ELSE [outcome |-> "payload", userId |-> decoded.userId]

\* verifyToken: outcome "payload" (the decoded payload), "null", or "throws"
\* (an exception reaches the caller).
verifyToken(token, t) ==
  LET decoded == jwtVerify(token, JWT_SECRET, t)
  IN  IF decoded.threw
        THEN [outcome |-> "null", userId |-> ""]
        ELSE [outcome |-> "payload", userId |-> decoded.userId]

(***************************************************************************)
(* middleware/auth.ts.  The Authorization header: missing, or a scheme     *)
(* word followed by a token.                                               *)
(***************************************************************************)
NoHeader == [scheme |-> "none", token |-> NotAJwt]
Header(scheme, token) == [scheme |-> scheme, token |-> token]

\* authMiddleware without the check of the payload.
authMiddlewareNoCheck(hdr, t) ==
  [next |-> TRUE, status |-> 0, error |-> "", verify |-> "n/a",
   userId |-> hdr.token.userId]

\* next: whether next() is called; otherwise the 401 response sent.
authMiddleware(hdr, t) ==
  IF hdr.scheme = "none"
    THEN [next |-> FALSE, status |-> 401, error |-> "Authorization header missing",
          verify |-> "n/a", userId |-> ""]
  ELSE IF hdr.scheme # "Bearer"
    THEN [next |-> FALSE, status |-> 401,
          error |-> "Invalid authorization format. Expected: Bearer <token>",
          verify |-> "n/a", userId |-> ""]
  ELSE LET payload == verifyToken(hdr.token, t)
       IN  IF payload.outcome = "throws"
             THEN [next |-> FALSE, status |-> 401, error |-> "Authentication failed",
                   verify |-> payload.outcome, userId |-> ""]
           ELSE IF payload.outcome = "null"
             THEN [next |-> FALSE, status |-> 401, error |-> "Invalid or expired token",
                   verify |-> payload.outcome, userId |-> ""]
           ELSE [next |-> TRUE, status |-> 0, error |-> "",
                 verify |-> payload.outcome, userId |-> payload.userId]

(***************************************************************************)
(* The database (db/schema.sql).  users: a set of rows; courses: price in  *)
(* cents by course id; subscriptions: a set of rows.                       *)
(***************************************************************************)
SubscriptionRow(id, userId, courseId, pricePaid, t) ==
  [id |-> id, userId |-> userId, courseId |-> courseId, pricePaid |-> pricePaid,
   subscribedAt |-> t]

\* INSERT INTO subscriptions with no constraint checked.
InsertSubscriptionUnchecked(row) ==
  [error |-> "", table |-> subscriptions \cup {row}]

\* INSERT INTO subscriptions that writes the row before it reports a
\* duplicate.
InsertSubscriptionThenFail(row) ==
  IF \E s \in subscriptions : s.userId = row.userId /\ s.courseId = row.courseId
    THEN [error |-> "duplicate key value violates unique constraint",
          table |-> subscriptions \cup {row}]
    ELSE [error |-> "", table |-> subscriptions \cup {row}]

\* INSERT INTO subscriptions ... ON CONFLICT (user_id, course_id) DO UPDATE.
InsertSubscriptionUpsert(row) ==
  [error |-> "",
   table |-> {s \in subscriptions :
                ~(s.userId = row.userId /\ s.courseId = row.courseId)} \cup {row}]

\* INSERT INTO subscriptions on a table without the two foreign keys.
InsertSubscriptionNoForeignKeys(row) ==
  IF \E s \in subscriptions : s.userId = row.userId /\ s.courseId = row.courseId
    THEN [error |-> "duplicate key value violates unique constraint",
          table |-> subscriptions]
  ELSE [error |-> "", table |-> subscriptions \cup {row}]

\* INSERT INTO subscriptions: UNIQUE(user_id, course_id) and the two foreign
\* keys are checked by the database; a violation raises a driver error whose
\* message is PostgreSQL's and leaves the table as it was.
InsertSubscription(row) ==
  IF \E s \in subscriptions : s.userId = row.userId /\ s.courseId = row.courseId
    THEN [error |-> "duplicate key value violates unique constraint",
          table |-> subscriptions]
  ELSE IF row.userId \notin {u.id : u \in users} \/ row.courseId \notin DOMAIN courses
    THEN [error |-> "insert or update on table violates foreign key constraint",
          table |-> subscriptions]
  ELSE [error |-> "", table |-> subscriptions \cup {row}]

\* isUserSubscribed asking only for the course.
isUserSubscribedAnyUser(userId, courseId) ==
  \E s \in subscriptions : s.courseId = courseId

\* SELECT id FROM subscriptions WHERE user_id = $1 AND course_id = $2
isUserSubscribed(userId, courseId) ==
  \E s \in subscriptions : s.userId = userId /\ s.courseId = courseId

(***************************************************************************)
(* routes/subscriptions.ts: the catch block of POST /subscribe maps the    *)
(* message of the error thrown to the response.                            *)
(***************************************************************************)
Response(status, error) == [status |-> status, error |-> error]

subscribeCatch(message) ==
  IF message = "User already subscribed to this course" THEN Response(409, message)
  ELSE IF message = "Course not found" THEN Response(404, message)
  ELSE IF message = "Invalid promo code" THEN Response(400, message)
  ELSE IF message = "Promo code required for paid courses" THEN Response(400, message)
  ELSE Response(500, "Internal server error")

(***************************************************************************)
(* Requests on the subscription routes.  pc is the query the request waits *)
(* for: "check" (isUserSubscribed), "course" (the course lookup), "insert",*)
(* "list" (getUserSubscriptions); "done" once the response is sent.        *)
(* at is the time of arrival; handler records that the route handler was   *)
(* entered; verify, what                                                   *)
(* verifyToken gave the middleware; out, the records of a success body.    *)
(***************************************************************************)
IdleReq ==
  [pc |-> "idle", route |-> "", hdr |-> NoHeader, courseId |-> "", promo |-> NoPromo,
   userId |-> "", at |-> 0, verify |-> "n/a", handler |-> FALSE, pricePaid |-> 0,
   status |-> 0, error |-> "", out |-> <<>>]

\* A catch block that logs an error it does not know and sends nothing.
RespondKnownOnly(q, resp) ==
  IF resp.status = 500 THEN q
  ELSE [q EXCEPT !.pc = "done", !.status = resp.status, !.error = resp.error]

Respond(q, resp) == [q EXCEPT !.pc = "done", !.status = resp.status, !.error = resp.error]

\* z.string().uuid() of subscribeSchema.
IsUuid(s) == s \in UuidStrings

\* POST /subscribe arrives: authMiddleware, then the handler up to its first
\* query (subscribeSchema.parse, the call of subscribe, isUserSubscribed sent).
PostSubscribe(r, hdrs, courseIds, promos) ==
  /\ reqs[r].pc = "idle"
  /\ \E hdr \in hdrs, courseId \in courseIds, promo \in promos :
       LET a == authMiddleware(hdr, now)
           q == [reqs[r] EXCEPT !.route = "POST /subscribe", !.hdr = hdr,
                                !.courseId = courseId, !.promo = promo,
                                !.at = now, !.verify = a.verify]
       IN  reqs' = [reqs EXCEPT ![r] =
             IF ~a.next THEN Respond(q, Response(a.status, a.error))
             ELSE IF ~IsUuid(courseId)
               THEN Respond([q EXCEPT !.handler = TRUE, !.userId = a.userId],
                            Response(400, "Validation failed"))
             ELSE [q EXCEPT !.handler = TRUE, !.userId = a.userId, !.pc = "check"]]
  /\ UNCHANGED <<users, courses, subscriptions, now, authReqs, client, page>>

\* The result of isUserSubscribed arrives; subscribe throws or sends the
\* course lookup.
DbCheck(r) ==
  /\ reqs[r].pc = "check"
  /\ reqs' = [reqs EXCEPT ![r] =
       IF isUserSubscribed(reqs[r].userId, reqs[r].courseId)
         THEN Respond(reqs[r], subscribeCatch("User already subscribed to this course"))
         ELSE [reqs[r] EXCEPT !.pc = "course"]]
  /\ UNCHANGED <<users, courses, subscriptions, now, authReqs, client, page>>

\* subscribe asking for the promo code whatever the price is.
subscribePricingPromoFirst(courseId, promo) ==
  IF courseId \notin DOMAIN courses
    THEN [error |-> "Course not found", pricePaid |-> 0]
  ELSE IF ~promo.present \/ promo.code = ""
    THEN [error |-> "Promo code required for paid courses", pricePaid |-> 0]
  ELSE IF ~validatePromoCode(promo.code).valid
    THEN [error |-> "Invalid promo code", pricePaid |-> 0]
  ELSE [error |-> "",
        pricePaid |-> calculateDiscountedPrice(courses[courseId],
                        IF courses[courseId] = 0 THEN 0 ELSE PROMO_DISCOUNT)]

\* subscribe accepting any promo code that is supplied.
subscribePricingAnyPromo(courseId, promo) ==
  IF courseId \notin DOMAIN courses
    THEN [error |-> "Course not found", pricePaid |-> 0]
  ELSE IF courses[courseId] = 0
    THEN [error |-> "", pricePaid |-> 0]
  ELSE IF ~promo.present \/ promo.code = ""
    THEN [error |-> "Promo code required for paid courses", pricePaid |-> 0]
  ELSE [error |-> "",
        pricePaid |-> calculateDiscountedPrice(courses[courseId], PROMO_DISCOUNT)]

\* subscribe validating a supplied promo code before it looks at the course.
subscribePricingPromoBeforeCourse(courseId, promo) ==
  IF promo.present /\ promo.code # "" /\ ~validatePromoCode(promo.code).valid
    THEN [error |-> "Invalid promo code", pricePaid |-> 0]
  ELSE IF courseId \notin DOMAIN courses
    THEN [error |-> "Course not found", pricePaid |-> 0]
  ELSE IF courses[courseId] = 0
    THEN [error |-> "", pricePaid |-> 0]
  ELSE IF ~promo.present \/ promo.code = ""
    THEN [error |-> "Promo code required for paid courses", pricePaid |-> 0]
  ELSE [error |-> "",
        pricePaid |-> calculateDiscountedPrice(courses[courseId], PROMO_DISCOUNT)]

\* subscribe from the course row to the INSERT: either the message of the
\* error thrown, or the price to pay.
subscribePricing(courseId, promo) ==
  IF courseId \notin DOMAIN courses
    THEN [error |-> "Course not found", pricePaid |-> 0]
  ELSE LET coursePrice == courses[courseId]
       IN  IF coursePrice = 0
             THEN [error |-> "", pricePaid |-> 0]
           ELSE IF ~promo.present \/ promo.code = ""
             THEN [error |-> "Promo code required for paid courses", pricePaid |-> 0]
           ELSE LET promoValidation == validatePromoCode(promo.code)
                IN  IF ~promoValidation.valid
                      THEN [error |-> "Invalid promo code", pricePaid |-> 0]
                      ELSE [error |-> "",
                            pricePaid |-> calculateDiscountedPrice(coursePrice,
                                            promoValidation.discount)]

\* The course row arrives; subscribe throws or sends the INSERT.
DbCourse(r) ==
  /\ reqs[r].pc = "course"
  /\ LET p == subscribePricing(reqs[r].courseId, reqs[r].promo)
     IN  reqs' = [reqs EXCEPT ![r] =
           IF p.error # "" THEN Respond(reqs[r], subscribeCatch(p.error))
           ELSE [reqs[r] EXCEPT !.pc = "insert", !.pricePaid = p.pricePaid]]
  /\ UNCHANGED <<users, courses, subscriptions, now, authReqs, client, page>>

\* The database runs the INSERT; the handler answers 201 with the row
\* returned, or the catch block answers the driver's error.
DbInsert(r) ==
  /\ reqs[r].pc = "insert"
  /\ LET row == SubscriptionRow(r, reqs[r].userId, reqs[r].courseId,
                                reqs[r].pricePaid, now)
         res == InsertSubscription(row)
     IN  /\ subscriptions' = res.table
         /\ reqs' = [reqs EXCEPT ![r] =
              IF res.error # "" THEN Respond(reqs[r], subscribeCatch(res.error))
              ELSE [Respond(reqs[r], Response(201, "")) EXCEPT !.out = <<row>>]]
  /\ UNCHANGED <<users, courses, now, authReqs, client, page>>

\* GET /my-courses arrives: authMiddleware, then the handler sends the query
\* of getUserSubscriptions.
GetMyCourses(r, hdrs) ==
  /\ reqs[r].pc = "idle"
  /\ \E hdr \in hdrs :
       LET a == authMiddleware(hdr, now)
           q == [reqs[r] EXCEPT !.route = "GET /my-courses", !.hdr = hdr,
                                !.at = now, !.verify = a.verify]
       IN  reqs' = [reqs EXCEPT ![r] =
             IF ~a.next THEN Respond(q, Response(a.status, a.error))
             ELSE [q EXCEPT !.handler = TRUE, !.userId = a.userId, !.pc = "list"]]
  /\ UNCHANGED <<users, courses, subscriptions, now, authReqs, client, page>>

\* getUserSubscriptions mapping the course's price to pricePaid.
getUserSubscriptionsRowsCoursePrice(userId) ==
  {[id |-> s.id, userId |-> s.userId, courseId |-> s.courseId,
    pricePaid |-> courses[s.courseId], subscribedAt |-> s.subscribedAt,
    course |-> [id |-> s.courseId, price |-> courses[s.courseId]]] :
     s \in {x \in subscriptions : x.userId = userId /\ x.courseId \in DOMAIN courses}}

\* getUserSubscriptions without WHERE s.user_id = $1.
getUserSubscriptionsRowsAllUsers(userId) ==
  {[id |-> s.id, userId |-> s.userId, courseId |-> s.courseId,
    pricePaid |-> s.pricePaid, subscribedAt |-> s.subscribedAt,
    course |-> [id |-> s.courseId, price |-> courses[s.courseId]]] :
     s \in {x \in subscriptions : x.courseId \in DOMAIN courses}}

\* The rows of subscriptions s JOIN courses c ON s.course_id = c.id
\* WHERE s.user_id = $1, mapped to SubscriptionWithCourse.
getUserSubscriptionsRows(userId) ==
  {[id |-> s.id, userId |-> s.userId, courseId |-> s.courseId,
    pricePaid |-> s.pricePaid, subscribedAt |-> s.subscribedAt,
    course |-> [id |-> s.courseId, price |-> courses[s.courseId]]] :
     s \in {x \in subscriptions : x.userId = userId /\ x.courseId \in DOMAIN courses}}

RECURSIVE Orderings(_)
Orderings(S) ==
  IF S = {} THEN {<<>>}
  ELSE UNION {{<<x>> \o t : t \in Orderings(S \ {x})} : x \in S}

\* ORDER BY s.subscribed_at ASC.
OrderBySubscribedAtAsc(rows) ==
  {seq \in Orderings(rows) :
     \A i, j \in 1..Len(seq) : i < j => seq[i].subscribedAt <= seq[j].subscribedAt}

\* ORDER BY s.subscribed_at DESC: any order of the rows that descends; rows
\* of one timestamp come in an order the database chooses.
OrderBySubscribedAtDesc(rows) ==
  {seq \in Orderings(rows) :
     \A i, j \in 1..Len(seq) : i < j => seq[i].subscribedAt >= seq[j].subscribedAt}

\* The database runs the query of getUserSubscriptions; the handler answers 200.
DbList(r) ==
  /\ reqs[r].pc = "list"
  /\ \E seq \in OrderBySubscribedAtDesc(getUserSubscriptionsRows(reqs[r].userId)) :
       reqs' = [reqs EXCEPT ![r] =
                  [Respond(reqs[r], Response(200, "")) EXCEPT !.out = seq]]
  /\ UNCHANGED <<users, courses, subscriptions, now, authReqs, client, page>>

\* A day passes.
Tick ==
  /\ now < MaxTime
  /\ now' = now + 1
  /\ UNCHANGED <<users, courses, subscriptions, reqs, authReqs, client, page>>

(***************************************************************************)
(* Email and password checks.                                              *)
(***************************************************************************)
UpperCase == <<"A", "B", "C", "D", "E", "F", "G", "H", "I", "J", "K", "L", "M",
               "N", "O", "P", "Q", "R", "S", "T", "U", "V", "W", "X", "Y", "Z">>
LowerCase == <<"a", "b", "c", "d", "e", "f", "g", "h", "i", "j", "k", "l", "m",
               "n", "o", "p", "q", "r", "s", "t", "u", "v", "w", "x", "y", "z">>
Digits == {"0", "1", "2", "3", "4", "5", "6", "7", "8", "9"}
Range(f) == {f[i] : i \in DOMAIN f}
Letters == Range(UpperCase) \cup Range(LowerCase)

ToLowerChar(c) ==
  IF c \in Range(UpperCase)
    THEN LowerCase[CHOOSE i \in DOMAIN UpperCase : UpperCase[i] = c]
    ELSE c
ToLower(str) == [i \in DOMAIN str |-> ToLowerChar(str[i])]

\* /^[^\s@]+@[^\s@]+\.[^\s@]+$/ of AuthService.signup
emailRegexTest(email) ==
  \E i, j \in 1..Len(email) :
    /\ 1 < i /\ i + 1 < j /\ j < Len(email)
    /\ email[i] = "@" /\ email[j] = "."
    /\ \A k \in 1..Len(email) : k # i => email[k] \notin {"@", " "}

\* z.string().email(): a local part of letters, digits and _ ' + - . that
\* neither starts nor ends with a dot, one @, and a domain of dot-separated
\* labels of letters, digits and - whose last label is two letters or more;
\* no two dots in a row.
zodEmail(email) ==
  \E i \in 1..Len(email) :
    /\ email[i] = "@" /\ 1 < i
    /\ \A k \in 1..(i - 1) : email[k] \in Letters \cup Digits \cup {"_", "'", "+", "-", "."}
    /\ email[1] # "." /\ email[i - 1] # "."
    /\ \A k \in 1..(Len(email) - 1) : ~(email[k] = "." /\ email[k + 1] = ".")
    /\ \A k \in (i + 1)..Len(email) : email[k] \in Letters \cup Digits \cup {"-", "."}
    /\ i < Len(email) /\ email[i + 1] \in Letters \cup Digits
    /\ \A k \in (i + 1)..(Len(email) - 1) :
         email[k] = "." => email[k + 1] \in Letters \cup Digits
    /\ \E j \in (i + 2)..(Len(email) - 2) :
         /\ email[j] = "."
         /\ \A k \in (j + 1)..Len(email) : email[k] \in Letters

\* signupSchema / loginSchema: the fields that fail.
authSchemaIssues(email, password) ==
  (IF zodEmail(email) THEN {} ELSE {"email"}) \cup
  (IF Len(password) >= 8 THEN {} ELSE {"password"})

(***************************************************************************)
(* routes/auth.ts and AuthService.signup / login.  pc is the query the     *)
(* request waits for: "exists" (SELECT id FROM users WHERE email),         *)
(* "insertUser", "find" (login's SELECT); "done" once the response is sent.*)
(***************************************************************************)
NoToken == NotAJwt

IdleAuthReq ==
  [pc |-> "idle", route |-> "", email |-> <<>>, password |-> <<>>,
   status |-> 0, error |-> "", details |-> {}, userId |-> "", token |-> NoToken]

AuthResponse(status, error, details) ==
  [status |-> status, error |-> error, details |-> details]

AuthRespond(q, resp) ==
  [q EXCEPT !.pc = "done", !.status = resp.status, !.error = resp.error,
            !.details = resp.details]

signupCatch(message) ==
  IF message = "Email already exists" THEN AuthResponse(409, message, {})
  ELSE IF message = "Invalid email format"
          \/ message = "Password must be at least 8 characters long"
    THEN AuthResponse(400, message, {})
  ELSE AuthResponse(500, "Internal server error", {})

loginCatch(message) ==
  IF message = "Invalid credentials" THEN AuthResponse(401, message, {})
  ELSE AuthResponse(500, "Internal server error", {})

\* AuthService.signup without its check of the password length.
signupValidateEmailOnly(email, password) ==
  IF ~emailRegexTest(email) THEN "Invalid email format" ELSE ""

\* AuthService.signup before its first query: the message of the error
\* thrown, or "".
signupValidate(email, password) ==
  IF ~emailRegexTest(email) THEN "Invalid email format"
  ELSE IF Len(password) < 8 THEN "Password must be at least 8 characters long"
  ELSE ""

\* POST /auth/signup arrives: signupSchema.parse, then signup up to its
\* SELECT.
PostSignup(r, emails, passwords) ==
  /\ authReqs[r].pc = "idle"
  /\ \E email \in emails, password \in passwords :
       LET q == [authReqs[r] EXCEPT !.route = "POST /auth/signup", !.email = email,
                                    !.password = password]
           issues == authSchemaIssues(email, password)
           thrown == signupValidate(email, password)
       IN  authReqs' = [authReqs EXCEPT ![r] =
             IF issues # {} THEN AuthRespond(q, AuthResponse(400, "Validation failed", issues))
             ELSE IF thrown # "" THEN AuthRespond(q, signupCatch(thrown))
             ELSE [q EXCEPT !.pc = "exists"]]
  /\ UNCHANGED <<users, courses, subscriptions, now, reqs, client, page>>

\* SELECT id FROM users WHERE email = $1, comparing without regard to case.
usersByEmailIgnoreCase(email) == {u \in users : ToLower(u.email) = ToLower(email)}

\* SELECT ... FROM users WHERE email = $1
usersByEmail(email) == {u \in users : u.email = email}

\* The result of signup's SELECT arrives; signup throws, or hashes the
\* password and sends the INSERT.
DbExists(r) ==
  /\ authReqs[r].pc = "exists"
  /\ authReqs' = [authReqs EXCEPT ![r] =
       IF usersByEmail(authReqs[r].email) # {}
         THEN AuthRespond(authReqs[r], signupCatch("Email already exists"))
         ELSE [authReqs[r] EXCEPT !.pc = "insertUser"]]
  /\ UNCHANGED <<users, courses, subscriptions, now, reqs, client, page>>

\* INSERT INTO users on a table whose email column is not UNIQUE.
InsertUserUnchecked(row) == [error |-> "", table |-> users \cup {row}]

\* INSERT INTO users: email is UNIQUE; a violation raises a driver error.
InsertUser(row) ==
  IF \E u \in users : u.email = row.email
    THEN [error |-> "duplicate key value violates unique constraint", table |-> users]
    ELSE [error |-> "", table |-> users \cup {row}]

\* gen_random_uuid() of the row that request r inserts.
NewUserId(r) == "n" \o ToString(r)

\* The database runs the INSERT; the handler answers 201 with the user and a
\* token, or the catch block answers the driver's error.
DbInsertUser(r) ==
  /\ authReqs[r].pc = "insertUser"
  /\ LET row == UserRow(NewUserId(r), authReqs[r].email, bcryptHash(authReqs[r].password))
         res == InsertUser(row)
     IN  /\ users' = res.table
         /\ authReqs' = [authReqs EXCEPT ![r] =
              IF res.error # "" THEN AuthRespond(authReqs[r], signupCatch(res.error))
              ELSE [AuthRespond(authReqs[r], AuthResponse(201, "", {}))
                      EXCEPT !.userId = row.id, !.token = generateToken(row.id, now)]]
  /\ UNCHANGED <<courses, subscriptions, now, reqs, client, page>>

\* POST /auth/login arrives: loginSchema.parse, then login sends its SELECT.
PostLogin(r, emails, passwords) ==
  /\ authReqs[r].pc = "idle"
  /\ \E email \in emails, password \in passwords :
       LET q == [authReqs[r] EXCEPT !.route = "POST /auth/login", !.email = email,
                                    !.password = password]
           issues == authSchemaIssues(email, password)
       IN  authReqs' = [authReqs EXCEPT ![r] =
             IF issues # {} THEN AuthRespond(q, AuthResponse(400, "Validation failed", issues))
             ELSE [q EXCEPT !.pc = "find"]]
  /\ UNCHANGED <<users, courses, subscriptions, now, reqs, client, page>>

\* login telling a missing user from a wrong password.
loginCheckUserNotFound(rows, password) ==
  IF rows = {} THEN [error |-> "User not found", userId |-> ""]
  ELSE LET user == CHOOSE u \in rows : TRUE
       IN  IF ~bcryptCompare(password, user.password)
             THEN [error |-> "Invalid credentials", userId |-> ""]
             ELSE [error |-> "", userId |-> user.id]

\* login from the rows of its SELECT: the message of the error thrown, or
\* the user found.
loginCheck(rows, password) ==
  IF rows = {} THEN [error |-> "Invalid credentials", userId |-> ""]
  ELSE LET user == CHOOSE u \in rows : TRUE
       IN  IF ~bcryptCompare(password, user.password)
             THEN [error |-> "Invalid credentials", userId |-> ""]
             ELSE [error |-> "", userId |-> user.id]

\* The rows of login's SELECT arrive; login throws, or compares the password
\* and answers 200 with the user and a fresh token.
DbFind(r) ==
  /\ authReqs[r].pc = "find"
  /\ LET res == loginCheck(usersByEmail(authReqs[r].email), authReqs[r].password)
     IN  authReqs' = [authReqs EXCEPT ![r] =
           IF res.error # "" THEN AuthRespond(authReqs[r], loginCatch(res.error))
           ELSE [AuthRespond(authReqs[r], AuthResponse(200, "", {}))
                   EXCEPT !.userId = res.userId, !.token = generateToken(res.userId, now)]]
  /\ UNCHANGED <<users, courses, subscriptions, now, reqs, client, page>>

(***************************************************************************)
(* The frontend.  client is what the browser tab keeps outside the pages:  *)
(* the AuthProvider's authState, localStorage, the token of the ApiClient  *)
(* singleton and the calls of api.login, api.signup and api.subscribe that *)
(* are in flight.  page is the router's location with the state of the     *)
(* components mounted there: CourseDetail with its PromoCodeInput on a     *)
(* course page, ProtectedRoute on /my-courses.  A value that may be null   *)
(* is a sequence: empty for null, else holding the value.                  *)
(***************************************************************************)
Null == <<>>
Some(x) == <<x>>

\* UserDTO of a response body.
UserDTO(id, email) == [id |-> id, email |-> email]

\* JSON.stringify of a UserDTO, and JSON.parse of a stored text.
JSONstringify(value) == [text |-> "json", of |-> value]
JSONparse(stored) ==
  IF stored.text = "json" THEN [threw |-> FALSE, value |-> stored.of]
  ELSE [threw |-> TRUE, value |-> stored.of]

\* useState of AuthProvider.
InitialAuthState ==
  [user |-> Null, token |-> Null, isAuthenticated |-> FALSE, isLoading |-> TRUE]

\* A call of the ApiClient: "none" (not made), "sent", "resolved",
\* "rejected", or "dropped" (the page that awaited it was reloaded).
NoCall ==
  [state |-> "none", fn |-> "", email |-> <<>>, password |-> <<>>, hdr |-> NoHeader,
   courseId |-> "", promo |-> NoPromo, status |-> 0]

\* A tab that has just loaded the application on a browser that never ran it;
\* redirects counts the pending timers of CourseDetail that will push
\* /my-courses.
FreshClient ==
  [authState |-> InitialAuthState,
   localStorage |-> [auth_token |-> Null, auth_user |-> Null],
   token |-> Null,
   auth |-> [k \in 1..NumAuthReqs |-> NoCall],
   subs |-> [k \in 1..NumReqs |-> NoCall],
   redirects |-> 0]

\* useState of PromoCodeInput; timer is the promoCode that the pending
\* setTimeout callback of handleApplyPromo closed over.
InitialPromoCodeInput ==
  [promoCode |-> "", isPromoValid |-> FALSE, promoError |-> "", isApplying |-> FALSE,
   timer |-> Null]

\* No component of the model is mounted at this location.  toast is the
\* last toast shown since the location was opened, awaited the calls of
\* api.subscribe whose handleSubscribe belongs to the mounted CourseDetail;
\* discountedPrice is in half cents.
NoPage ==
  [path |-> "/", courseId |-> "", price |-> 0, isSubscribing |-> FALSE,
   isPromoValid |-> FALSE, discountedPrice |-> 0, input |-> InitialPromoCodeInput,
   awaited |-> {}, toast |-> "", redirectTo |-> Null, view |-> "none", deps |-> Null,
   effect |-> FALSE]

(***************************************************************************)
(* Spec: NumReqs requests on the subscription routes, every one with a     *)
(* token the server issued to a seeded user, interleaved at their queries. *)
(***************************************************************************)
IssuedHeaders == {Header("Bearer", generateToken(u, 0)) : u \in UserIds}

Init ==
  /\ users = SeedUsers
  /\ courses = SeedCourses
  /\ subscriptions = {}
  /\ now = 0
  /\ reqs = [r \in 1..NumReqs |-> IdleReq]
  /\ authReqs = [r \in 1..NumAuthReqs |-> IdleAuthReq]
  /\ client = FreshClient
  /\ page = NoPage

Next ==
  \E r \in 1..NumReqs :
    \/ PostSubscribe(r, IssuedHeaders, CourseIdInputs, PromoInputs)
    \/ GetMyCourses(r, IssuedHeaders)
    \/ DbCheck(r)
    \/ DbCourse(r)
    \/ DbInsert(r)
    \/ DbList(r)

Spec == Init /\ [][Next]_vars

(***************************************************************************)
(* Properties of the subscription flow.                                    *)
(***************************************************************************)
Reqs == DOMAIN reqs
IsSubscribeCall(q) == q.route = "POST /subscribe" /\ q.handler /\ IsUuid(q.courseId)
SamePair(q1, q2) == q1.userId = q2.userId /\ q1.courseId = q2.courseId
SubscriptionsOf(userId, courseId) ==
  {s \in subscriptions : s.userId = userId /\ s.courseId = courseId}

\* C1: in every reachable state the subscriptions table holds at most one
\* row per (userId, courseId), also when two requests for one pair both pass
\* the isUserSubscribed check before either inserts.
C1_OnePerPair ==
  \A s1, s2 \in subscriptions :
    (s1.userId = s2.userId /\ s1.courseId = s2.courseId) => s1 = s2

\* Two requests for one pair both passed the check; one inserted, and the
\* INSERT of the other was refused.
C1_Witness ==
  \E r1, r2 \in Reqs :
    /\ r1 # r2 /\ IsSubscribeCall(reqs[r1]) /\ IsSubscribeCall(reqs[r2])
    /\ SamePair(reqs[r1], reqs[r2])
    /\ reqs[r1].pc = "done" /\ reqs[r1].status = 201
    /\ reqs[r2].pc = "done" /\ reqs[r2].status = 500
    /\ Cardinality(SubscriptionsOf(reqs[r1].userId, reqs[r1].courseId)) = 1

\* C2: of two subscribe calls for one pair that would each succeed alone,
\* once one has answered 201 the other answers 409 (ConflictError), and one
\* row is persisted.
C2_SecondCallerConflict ==
  \A r1, r2 \in Reqs :
    ( /\ r1 # r2 /\ IsSubscribeCall(reqs[r1]) /\ IsSubscribeCall(reqs[r2])
      /\ SamePair(reqs[r1], reqs[r2])
      /\ reqs[r1].pc = "done" /\ reqs[r1].status = 201
      /\ reqs[r2].pc = "done"
      /\ subscribePricing(reqs[r2].courseId, reqs[r2].promo).error = "" )
    => /\ reqs[r2].status = 409
       /\ Cardinality(SubscriptionsOf(reqs[r1].userId, reqs[r1].courseId)) = 1

\* C3: a subscribe call for a free course is never refused for its promo
\* code: whether the code is absent, the valid one or any other string, the
\* call ends with 201 and a row of pricePaid 0, unless the user has been
\* subscribed to the course by another call.
C3_FreeCourse ==
  \A r \in Reqs :
    ( /\ IsSubscribeCall(reqs[r])
      /\ reqs[r].courseId \in DOMAIN courses /\ courses[reqs[r].courseId] = 0 )
    => /\ reqs[r].pc = "insert" => reqs[r].pricePaid = 0
       /\ reqs[r].pc = "done" =>
            \/ /\ reqs[r].status = 201
               /\ reqs[r].out[1].pricePaid = 0
               /\ \E s \in subscriptions :
                    /\ s.id = r /\ s.pricePaid = 0
                    /\ s.userId = reqs[r].userId /\ s.courseId = reqs[r].courseId
            \/ /\ reqs[r].status \in {409, 500}
               /\ \E s \in subscriptions :
                    /\ s.id # r
                    /\ s.userId = reqs[r].userId /\ s.courseId = reqs[r].courseId

\* A free course subscribed with a promo code that is not the valid one.
C3_Witness ==
  \E r \in Reqs :
    /\ IsSubscribeCall(reqs[r]) /\ reqs[r].courseId = FreeCourse
    /\ reqs[r].promo.present /\ reqs[r].promo.code # VALID_PROMO_CODE
    /\ reqs[r].pc = "done" /\ reqs[r].status = 201
    /\ \E s \in subscriptions : s.id = r /\ s.pricePaid = 0

\* A subscribe call for a paid course without the valid promo code.
BadPromoPaid(q) ==
  /\ IsSubscribeCall(q)
  /\ q.courseId \in DOMAIN courses /\ courses[q.courseId] > 0
  /\ (~q.promo.present \/ q.promo.code # VALID_PROMO_CODE)

\* C5 as stated: a subscribe call for a paid course whose promo code is
\* absent or not exactly "BFSALE25" ends with 400 and persists nothing.
C5_Original ==
  \A r \in Reqs :
    BadPromoPaid(reqs[r]) =>
      /\ reqs[r].pc # "insert"
      /\ \A s \in subscriptions : s.id # r
      /\ reqs[r].pc = "done" => reqs[r].status = 400

\* C5 amended: such a call ends with 400, or with 409 when the user is
\* already subscribed to the course; it never sends an INSERT and no row of
\* subscriptions is its own.
C5_Amended ==
  \A r \in Reqs :
    BadPromoPaid(reqs[r]) =>
      /\ reqs[r].pc # "insert"
      /\ \A s \in subscriptions : s.id # r
      /\ reqs[r].pc = "done" =>
           \/ reqs[r].status = 400
           \/ /\ reqs[r].status = 409
              /\ isUserSubscribed(reqs[r].userId, reqs[r].courseId)

\* Calls for the paid course with no promo code and with a wrong one were
\* both answered 400, and nothing is persisted.
C5_Witness ==
  \E r1, r2 \in Reqs :
    /\ BadPromoPaid(reqs[r1]) /\ ~reqs[r1].promo.present
    /\ BadPromoPaid(reqs[r2]) /\ reqs[r2].promo.present
    /\ reqs[r1].pc = "done" /\ reqs[r1].status = 400
    /\ reqs[r2].pc = "done" /\ reqs[r2].status = 400
    /\ subscriptions = {}

\* C6: subscribe has no partial failure.  A step that ends a subscribe call
\* with an error leaves users, courses and subscriptions as they were; a
\* step that ends it with 201 adds exactly one row, for the caller's
\* (userId, courseId) and with the pricePaid returned; no other step of a
\* call changes a table.
C6_Step(r) ==
  /\ users' = users /\ courses' = courses
  /\ IF reqs'[r].pc = "done" /\ reqs'[r].status = 201
       THEN \E row \in subscriptions' :
              /\ row \notin subscriptions
              /\ subscriptions' = subscriptions \cup {row}
              /\ row.userId = reqs'[r].userId /\ row.courseId = reqs'[r].courseId
              /\ Len(reqs'[r].out) = 1 /\ reqs'[r].out[1] = row
       ELSE subscriptions' = subscriptions

C6_NoPartialFailure ==
  [][\A r \in Reqs :
       (reqs[r] # reqs'[r] /\ reqs'[r].route = "POST /subscribe") => C6_Step(r)]_vars

\* A call that ended with a storage error next to one that succeeded.
C6_Witness ==
  \E r1, r2 \in Reqs :
    /\ reqs[r1].route = "POST /subscribe" /\ reqs[r1].pc = "done"
    /\ reqs[r1].status = 500
    /\ reqs[r2].route = "POST /subscribe" /\ reqs[r2].pc = "done"
    /\ reqs[r2].status = 201
    /\ Cardinality(subscriptions) = 1

\* C4 as stated: a successful subscribe to a course of price > 0 with promo
\* code "BFSALE25" persists half the price with a half cent rounded away
\* from zero: in cents, pricePaid = (priceCents + 1) div 2.
C4_HalfRoundedUp ==
  \A r \in Reqs :
    ( /\ IsSubscribeCall(reqs[r])
      /\ reqs[r].courseId \in DOMAIN courses /\ courses[reqs[r].courseId] > 0
      /\ reqs[r].promo = Promo(VALID_PROMO_CODE)
      /\ reqs[r].pc = "done" /\ reqs[r].status = 201 )
    => \E s \in subscriptions :
         /\ s.id = r
         /\ s.pricePaid = (courses[reqs[r].courseId] + 1) \div 2

(***************************************************************************)
(* SpecMw: requests on the two protected routes with every kind of         *)
(* Authorization header, while the clock runs past the expiry of tokens.   *)
(***************************************************************************)
AllHeaders ==
  {NoHeader,
   Header("Basic", generateToken("u1", 0)),
   Header("Bearer", NotAJwt),
   Header("Bearer", jwtSign("u1", "attacker-key", 0)),
   Header("Bearer", generateToken("u1", 0)),
   Header("Bearer", generateToken("u2", 2))}

\* The headers a client can send at time t: a token of the server was issued
\* at or before t.
HeadersAt(t) == {h \in AllHeaders : h.token.iat <= t}

InitMw ==
  /\ users = SeedUsers
  /\ courses = SeedCourses
  /\ subscriptions = {SubscriptionRow(0, "u1", FreeCourse, 0, 0)}
  /\ now = 0
  /\ reqs = [r \in 1..NumReqs |-> IdleReq]
  /\ authReqs = [r \in 1..NumAuthReqs |-> IdleAuthReq]
  /\ client = FreshClient
  /\ page = NoPage

NextMw ==
  \/ Tick
  \/ \E r \in 1..NumMwReqs :
       \/ PostSubscribe(r, HeadersAt(now), {FreeCourse, PaidCourse},
                        {NoPromo, Promo(VALID_PROMO_CODE)})
       \/ GetMyCourses(r, HeadersAt(now))
       \/ DbCheck(r)
       \/ DbCourse(r)
       \/ DbInsert(r)
       \/ DbList(r)

SpecMw == InitMw /\ [][NextMw]_vars

\* What a token is, by how it was made: a JWT signed with the server's key
\* whose expiry lies after t.
GoodToken(token, t) ==
  token.fmt = "jwt" /\ token.key = JWT_SECRET /\ t < token.iat + TOKEN_DAYS

GoodHeader(hdr, t) == hdr.scheme = "Bearer" /\ GoodToken(hdr.token, t)

\* C7: a request to POST /subscribe or GET /my-courses whose Authorization
\* header is missing, is not a Bearer header, or carries a malformed,
\* wrongly signed or expired token is answered 401 on arrival; its handler
\* never runs, it returns no list and no subscription is its own.
C7_Unauthorized ==
  \A r \in Reqs :
    (reqs[r].pc # "idle" /\ ~GoodHeader(reqs[r].hdr, reqs[r].at)) =>
      /\ reqs[r].pc = "done" /\ reqs[r].status = 401
      /\ ~reqs[r].handler
      /\ reqs[r].out = <<>>
      /\ \A s \in subscriptions : s.id # r

\* GET /my-courses with an expired token was answered 401.
C7_Witness ==
  \E r \in Reqs :
    /\ reqs[r].route = "GET /my-courses"
    /\ reqs[r].hdr = Header("Bearer", generateToken("u1", 0))
    /\ reqs[r].at >= TOKEN_DAYS
    /\ reqs[r].pc = "done" /\ reqs[r].status = 401

\* C8: verifyToken never lets an exception reach the middleware: it gives
\* null for a token that is malformed, wrongly signed or expired, and the
\* payload, with the userId the token was issued for, only for a token
\* signed with the server's key and not yet expired.
C8_VerifyFailsClosed ==
  \A r \in Reqs :
    (reqs[r].pc # "idle" /\ reqs[r].hdr.scheme = "Bearer") =>
      /\ reqs[r].verify \in {"payload", "null"}
      /\ reqs[r].verify = "payload" <=> GoodToken(reqs[r].hdr.token, reqs[r].at)
      /\ reqs[r].verify = "payload" => reqs[r].userId = reqs[r].hdr.token.userId

\* verifyToken gave null for a wrongly signed token.
C8_Witness ==
  \E r \in Reqs :
    /\ reqs[r].pc = "done"
    /\ reqs[r].hdr = Header("Bearer", jwtSign("u1", "attacker-key", 0))
    /\ reqs[r].verify = "null"

(***************************************************************************)
(* SpecAuth: NumAuthReqs requests on the auth routes, interleaved at their *)
(* queries.                                                                *)
(***************************************************************************)
Test1EmailUpper == <<"T", "1", "@", "e", ".", "c", "o">>
FreshEmail == <<"n", "@", "e", ".", "c", "o">>
NotAnEmail == <<"t", "1", "e", ".", "c", "o">>
WrongPassword == <<"l", "e", "t", "m", "e", "i", "n", "1">>
ShortPassword == <<"s", "h", "o", "r", "t">>

AuthEmails == {Test1Email, Test1EmailUpper, FreshEmail, NotAnEmail}
AuthPasswords == {Password123, WrongPassword, ShortPassword}

InitAuth ==
  /\ users = SeedUsers
  /\ courses = SeedCourses
  /\ subscriptions = {}
  /\ now = 0
  /\ reqs = [r \in 1..NumReqs |-> IdleReq]
  /\ authReqs = [r \in 1..NumAuthReqs |-> IdleAuthReq]
  /\ client = FreshClient
  /\ page = NoPage

NextAuth ==
  \E r \in 1..NumAuthReqs :
    \/ PostSignup(r, AuthEmails, AuthPasswords)
    \/ DbExists(r)
    \/ DbInsertUser(r)
    \/ PostLogin(r, AuthEmails, AuthPasswords)
    \/ DbFind(r)

SpecAuth == InitAuth /\ [][NextAuth]_vars

AuthReqs == DOMAIN authReqs
Registered(email) == \E u \in users : u.email = email
WrongFor(email, password) ==
  \A u \in users : u.email = email => ~bcryptCompare(password, u.password)
ResponseOf(q) == [status |-> q.status, error |-> q.error, details |-> q.details]

\* C9: login does not tell whether an account exists.  For every password,
\* AuthService.login throws the same error for a registered email with a
\* wrong password as for an unregistered email; and POST /auth/login, for
\* every password and every two well-formed email addresses, answers the
\* registered one with a wrong password and the unregistered one with the
\* same status, message and details.
C9_NoEnumeration ==
  /\ \A e1, e2 \in AuthEmails, p \in AuthPasswords :
       (Registered(e1) /\ WrongFor(e1, p) /\ ~Registered(e2)) =>
         loginCheck(usersByEmail(e1), p) = loginCheck(usersByEmail(e2), p)
  /\ \A r1, r2 \in AuthReqs :
       ( /\ authReqs[r1].route = "POST /auth/login" /\ authReqs[r1].pc = "done"
         /\ authReqs[r2].route = "POST /auth/login" /\ authReqs[r2].pc = "done"
         /\ authReqs[r1].password = authReqs[r2].password
         /\ zodEmail(authReqs[r1].email) /\ zodEmail(authReqs[r2].email)
         /\ Registered(authReqs[r1].email)
         /\ WrongFor(authReqs[r1].email, authReqs[r1].password)
         /\ ~Registered(authReqs[r2].email) )
       => ResponseOf(authReqs[r1]) = ResponseOf(authReqs[r2])

\* A registered email with a wrong password and an unregistered email were
\* both answered 401.
C9_Witness ==
  \E r1, r2 \in AuthReqs :
    /\ authReqs[r1].route = "POST /auth/login" /\ authReqs[r1].pc = "done"
    /\ authReqs[r2].route = "POST /auth/login" /\ authReqs[r2].pc = "done"
    /\ authReqs[r1].email = Test1Email /\ authReqs[r1].password = WrongPassword
    /\ authReqs[r2].email = FreshEmail /\ authReqs[r2].password = WrongPassword
    /\ ~Registered(FreshEmail)
    /\ authReqs[r1].status = 401 /\ authReqs[r2].status = 401

\* C10: when signup's lookup runs and a stored email equals the given one
\* character for character, signup fails with 'Email already exists' (409)
\* and the users table is unchanged; when no stored email equals it, also
\* when one differs from it only in letter case, the lookup reports no
\* conflict and signup goes on to its INSERT.  A signup answered 409 has
\* inserted no user.
C10_Lookup(r) ==
  IF \E u \in users : u.email = authReqs[r].email
    THEN /\ authReqs'[r].pc = "done" /\ authReqs'[r].status = 409
         /\ authReqs'[r].error = "Email already exists"
         /\ users' = users
    ELSE /\ authReqs'[r].pc = "insertUser"
         /\ users' = users

C10_ExactEmailConflict ==
  /\ [](\A r \in AuthReqs :
          authReqs[r].status = 409 => \A u \in users : u.id # NewUserId(r))
  /\ [][\A r \in AuthReqs :
          (authReqs[r].pc = "exists" /\ authReqs'[r] # authReqs[r]) => C10_Lookup(r)]_vars
  /\ [][\A r \in AuthReqs :
          (authReqs[r].status # 409 /\ authReqs'[r].status = 409) =>
             /\ authReqs[r].pc = "exists"
             /\ \E u \in users : u.email = authReqs[r].email]_vars

\* A signup with a seeded email was answered 409, and a signup with the same
\* email in another letter case created a user.
C10_Witness ==
  \E r1, r2 \in AuthReqs :
    /\ authReqs[r1].route = "POST /auth/signup" /\ authReqs[r1].email = Test1Email
    /\ authReqs[r1].pc = "done" /\ authReqs[r1].status = 409
    /\ authReqs[r2].route = "POST /auth/signup" /\ authReqs[r2].email = Test1EmailUpper
    /\ authReqs[r2].pc = "done" /\ authReqs[r2].status = 201
    /\ \E u \in users : u.id = NewUserId(r2) /\ u.email = Test1EmailUpper
    /\ Cardinality(users) = Cardinality(SeedUsers) + 1

\* The pattern local@domain.tld: one @ that is neither first nor last, no
\* white space, and a dot inside what follows the @, with a character
\* between the @ and it and a character after it.
AtPositions(email) == {i \in 1..Len(email) : email[i] = "@"}
LocalAtDomainDotTld(email) ==
  /\ Cardinality(AtPositions(email)) = 1
  /\ \A k \in 1..Len(email) : email[k] # " "
  /\ LET at == CHOOSE i \in AtPositions(email) : TRUE
     IN  /\ at > 1
         /\ \E dot \in (at + 2)..(Len(email) - 1) : email[dot] = "."

\* C11: a signup whose email does not match the local@domain.tld pattern,
\* or whose password is shorter than 8 characters, is answered 400 on
\* arrival: it sends no query and no row of users is its own; and
\* AuthService.signup itself throws, for such arguments, before its first
\* query an error that the route answers with 400.
C11_SignupValidation ==
  \A r \in AuthReqs :
    ( /\ authReqs[r].route = "POST /auth/signup"
      /\ (~LocalAtDomainDotTld(authReqs[r].email) \/ Len(authReqs[r].password) < 8) )
    => /\ authReqs[r].pc = "done" /\ authReqs[r].status = 400
       /\ \A u \in users : u.id # NewUserId(r)
       /\ signupValidate(authReqs[r].email, authReqs[r].password) # ""
       /\ signupCatch(signupValidate(authReqs[r].email, authReqs[r].password)).status = 400

\* A signup with a string that is no email address and one with a short
\* password were both answered 400, and no user was added.
C11_Witness ==
  \E r1, r2 \in AuthReqs :
    /\ authReqs[r1].route = "POST /auth/signup" /\ authReqs[r1].email = NotAnEmail
    /\ authReqs[r1].password = Password123
    /\ authReqs[r2].route = "POST /auth/signup" /\ authReqs[r2].email = FreshEmail
    /\ authReqs[r2].password = ShortPassword
    /\ authReqs[r1].status = 400 /\ authReqs[r2].status = 400
    /\ users = SeedUsers

\* C12: once a signup with an email and a password has been answered 201, a
\* login with the same email and password whose lookup then runs is answered
\* 200 with the userId signup returned, and verifyToken gives that userId
\* for the token login returns.
C12_Login(r1, r2) ==
  /\ authReqs'[r2].pc = "done" /\ authReqs'[r2].status = 200
  /\ authReqs'[r2].userId = authReqs[r1].userId
  /\ verifyToken(authReqs'[r2].token, now') =
       [outcome |-> "payload", userId |-> authReqs[r1].userId]

C12_SignupThenLogin ==
  [][\A r1, r2 \in AuthReqs :
       ( /\ authReqs[r1].route = "POST /auth/signup" /\ authReqs[r1].status = 201
         /\ authReqs[r2].route = "POST /auth/login" /\ authReqs[r2].pc = "find"
         /\ authReqs[r2].email = authReqs[r1].email
         /\ authReqs[r2].password = authReqs[r1].password
         /\ authReqs'[r2] # authReqs[r2] )
       => C12_Login(r1, r2)]_vars

\* A signup created a user and a login with the same email and password got
\* a token for that user.
C12_Witness ==
  \E r1, r2 \in AuthReqs :
    /\ authReqs[r1].route = "POST /auth/signup" /\ authReqs[r1].status = 201
    /\ authReqs[r2].route = "POST /auth/login" /\ authReqs[r2].status = 200
    /\ authReqs[r2].email = authReqs[r1].email
    /\ authReqs[r2].password = authReqs[r1].password
    /\ authReqs[r2].userId = NewUserId(r1)
    /\ authReqs[r2].token = generateToken(NewUserId(r1), now)

(***************************************************************************)
(* SpecTok: logins and signups issue tokens while days pass; clients       *)
(* present the tokens they hold on GET /my-courses: those issued to the    *)
(* seeded users on day 0 and those issued since.  At most MaxOps requests. *)
(***************************************************************************)
\* The tokens the responses of signup and login have handed out so far.
IssuedTokens ==
  {authReqs[r].token : r \in {x \in DOMAIN authReqs : authReqs[x].status \in {200, 201}}}

\* The tokens clients hold: those of day 0 too.
HeldTokens == IssuedTokens \cup {h.token : h \in IssuedHeaders}

TokEmails == {Test1Email, Test2Email, FreshEmail}

InitTok ==
  /\ users = SeedUsers
  /\ courses = SeedCourses
  /\ subscriptions = {}
  /\ now = 0
  /\ reqs = [r \in 1..NumReqs |-> IdleReq]
  /\ authReqs = [r \in 1..NumAuthReqs |-> IdleAuthReq]
  /\ client = FreshClient
  /\ page = NoPage

\* Requests are numbered in their order of arrival: request r arrives once
\* request r - 1 has.
Arrived(q, r) == IF r = 1 THEN TRUE ELSE q[r - 1].pc # "idle"

\* The requests that have arrived, on any route.
InFlight ==
  Cardinality({r \in DOMAIN reqs : reqs[r].pc # "idle"})
    + Cardinality({r \in DOMAIN authReqs : authReqs[r].pc # "idle"})

\* Another request arrives only while fewer than MaxOps have.
Admit(q, r) == InFlight < MaxOps /\ Arrived(q, r)

NextTok ==
  \/ Tick
  \/ \E r \in 1..NumAuthReqs :
       \/ Admit(authReqs, r) /\ PostSignup(r, {FreshEmail}, {Password123})
       \/ DbExists(r)
       \/ DbInsertUser(r)
       \/ Admit(authReqs, r) /\ PostLogin(r, TokEmails, {Password123})
       \/ DbFind(r)
  \/ \E r \in 1..NumMwReqs :
       \/ Admit(reqs, r)
          /\ GetMyCourses(r, {Header("Bearer", tok) : tok \in HeldTokens})
       \/ DbList(r)

SpecTok == InitTok /\ [][NextTok]_vars

\* C13: a token issued for user u at time t is accepted, as u's, at every
\* time before t + 7 days and rejected from t + 7 days on, whatever logins
\* and signups happened in between: verifyToken says so of every token
\* issued so far, and every request that presented one was let through to
\* its handler as that user, or answered 401, accordingly.
C13_Stateless ==
  /\ \A tok \in HeldTokens :
       verifyToken(tok, now) =
         IF now < tok.iat + TOKEN_DAYS
           THEN [outcome |-> "payload", userId |-> tok.userId]
           ELSE [outcome |-> "null", userId |-> ""]
  /\ \A r \in 1..NumMwReqs :
       reqs[r].pc # "idle" =>
         IF reqs[r].at < reqs[r].hdr.token.iat + TOKEN_DAYS
           THEN reqs[r].handler /\ reqs[r].userId = reqs[r].hdr.token.userId
                /\ reqs[r].status # 401
           ELSE ~reqs[r].handler /\ reqs[r].pc = "done" /\ reqs[r].status = 401

\* A user holding a token of day 0 logged in again on a later day; the old
\* token was presented after that and accepted, and on day 7 verifyToken
\* rejects it while the token of the later login still verifies.
C13_Witness ==
  \E a \in DOMAIN authReqs, r \in 1..NumMwReqs :
    /\ authReqs[a].status = 200
    /\ authReqs[a].token.iat > 0
    /\ reqs[r].hdr.token = generateToken(authReqs[a].userId, 0)
    /\ reqs[r].at > authReqs[a].token.iat
    /\ reqs[r].status = 200
    /\ now = TOKEN_DAYS
    /\ verifyToken(reqs[r].hdr.token, now).outcome = "null"
    /\ verifyToken(authReqs[a].token, now).outcome = "payload"

(***************************************************************************)
(* routes/courses.ts and CourseService.  Neither checks the id: it goes to *)
(* the database as the parameter of WHERE id = $1, where the column is of  *)
(* type UUID.                                                              *)
(***************************************************************************)
CourseRecord(id) == [id |-> id, price |-> courses[id]]

\* GET /courses arrives; getAllCourses sends its query.
GetCourses(r) ==
  /\ reqs[r].pc = "idle"
  /\ reqs' = [reqs EXCEPT ![r] =
                [reqs[r] EXCEPT !.route = "GET /courses", !.at = now,
                                !.handler = TRUE, !.pc = "getAll"]]
  /\ UNCHANGED <<users, courses, subscriptions, now, authReqs, client, page>>

\* The rows of getAllCourses arrive (ORDER BY created_at DESC: the seeded
\* courses share one created_at, so the database chooses); the handler
\* answers 200.
DbGetAll(r) ==
  /\ reqs[r].pc = "getAll"
  /\ \E seq \in Orderings({CourseRecord(id) : id \in DOMAIN courses}) :
       reqs' = [reqs EXCEPT ![r] =
                  [Respond(reqs[r], Response(200, "")) EXCEPT !.out = seq]]
  /\ UNCHANGED <<users, courses, subscriptions, now, authReqs, client, page>>

\* GET /courses/:id arrives; getCourseById sends its query with the id as
\* it stands in the path.
GetCourseById(r, ids) ==
  /\ reqs[r].pc = "idle"
  /\ \E id \in ids :
       reqs' = [reqs EXCEPT ![r] =
                  [reqs[r] EXCEPT !.route = "GET /courses/:id", !.courseId = id,
                                  !.at = now, !.handler = TRUE, !.pc = "getById"]]
  /\ UNCHANGED <<users, courses, subscriptions, now, authReqs, client, page>>

\* The query of getCourseById: the database refuses a parameter that is not
\* the text of a uuid (invalid input syntax for type uuid), and pool.query
\* rejects; otherwise the rows with that id.
getCourseById(id) ==
  IF id \notin UuidStrings THEN [threw |-> TRUE, rows |-> {}]
  ELSE IF id \notin DOMAIN courses THEN [threw |-> FALSE, rows |-> {}]
  ELSE [threw |-> FALSE, rows |-> {CourseRecord(id)}]

\* The result of getCourseById arrives; the handler answers.
DbGetById(r) ==
  /\ reqs[r].pc = "getById"
  /\ LET res == getCourseById(reqs[r].courseId)
     IN  reqs' = [reqs EXCEPT ![r] =
           IF res.threw THEN Respond(reqs[r], Response(500, "Internal server error"))
           ELSE IF res.rows = {} THEN Respond(reqs[r], Response(404, "Course not found"))
           ELSE [Respond(reqs[r], Response(200, ""))
                   EXCEPT !.out = <<CHOOSE c \in res.rows : TRUE>>]]
  /\ UNCHANGED <<users, courses, subscriptions, now, authReqs, client, page>>

(***************************************************************************)
(* middleware/errorHandler.ts.  An error is its class, the statusCode of   *)
(* an AppError, and its message.                                           *)
(***************************************************************************)
AppError(statusCode, message) ==
  [class |-> "AppError", statusCode |-> statusCode, message |-> message]

\* The messages this code base throws that contain 'not found', 'already
\* exists', 'Invalid', 'required'.
IncludesNotFound == {"Course not found", "User not found", "Subscription not found"}
IncludesAlreadyExists == {"Email already exists"}
IncludesInvalidOrRequired ==
  {"Invalid email format", "Invalid promo code", "Promo code required for paid courses"}

errorHandler(err) ==
  IF err.class = "ZodError" THEN Response(400, "Validation failed")
  ELSE IF err.class = "AppError" THEN Response(err.statusCode, err.message)
  ELSE IF err.message \in {"Invalid credentials", "No token provided", "Invalid token",
                           "Token expired", "Unauthorized"}
    THEN Response(401, err.message)
  ELSE IF err.message \in IncludesNotFound THEN Response(404, err.message)
  ELSE IF err.message \in
            IncludesAlreadyExists \cup {"User already subscribed to this course"}
    THEN Response(409, err.message)
  ELSE IF err.message \in
            IncludesInvalidOrRequired \cup {"Password must be at least 8 characters long"}
    THEN Response(400, err.message)
  ELSE Response(500, "Internal server error")

\* A request for a path no router serves: notFoundHandler hands an
\* AppError(404) to errorHandler.
UnknownRoute(r) ==
  /\ reqs[r].pc = "idle"
  /\ reqs' = [reqs EXCEPT ![r] =
                Respond([reqs[r] EXCEPT !.route = "GET /unknown", !.at = now],
                        errorHandler(AppError(404, "Route GET /unknown not found")))]
  /\ UNCHANGED <<users, courses, subscriptions, now, authReqs, client, page>>

(***************************************************************************)
(* SpecErr: at most MaxOps requests, on any route of the server, with the  *)
(* inputs that make each kind of failure happen.                           *)
(***************************************************************************)
ErrHeaders == {NoHeader} \cup IssuedHeaders
ErrCourseIds == CourseIdInputs
ErrPromos == {NoPromo, Promo(VALID_PROMO_CODE), Promo("bfsale25")}

InitErr ==
  /\ users = SeedUsers
  /\ courses = SeedCourses
  /\ subscriptions = {}
  /\ now = 0
  /\ reqs = [r \in 1..NumReqs |-> IdleReq]
  /\ authReqs = [r \in 1..NumAuthReqs |-> IdleAuthReq]
  /\ client = FreshClient
  /\ page = NoPage

NextErr ==
  \/ \E r \in 1..NumReqs :
       \/ Admit(reqs, r) /\ PostSubscribe(r, ErrHeaders, ErrCourseIds, ErrPromos)
       \/ Admit(reqs, r) /\ GetMyCourses(r, ErrHeaders)
       \/ Admit(reqs, r) /\ GetCourses(r)
       \/ Admit(reqs, r) /\ GetCourseById(r, ErrCourseIds)
       \/ Admit(reqs, r) /\ UnknownRoute(r)
       \/ DbCheck(r)
       \/ DbCourse(r)
       \/ DbInsert(r)
       \/ DbList(r)
       \/ DbGetAll(r)
       \/ DbGetById(r)
  \/ \E r \in 1..NumAuthReqs :
       \/ Admit(authReqs, r) /\ PostSignup(r, {Test1Email, FreshEmail}, {Password123, ShortPassword})
       \/ Admit(authReqs, r) /\ PostLogin(r, {Test1Email}, {Password123, WrongPassword})
       \/ DbExists(r)
       \/ DbInsertUser(r)
       \/ DbFind(r)

SpecErr == InitErr /\ [][NextErr]_vars

\* C17: GET /courses/:id with an id that is the id of no stored course is
\* answered 404, with no course in the body.
C17_NotFound ==
  \A r \in Reqs :
    ( /\ reqs[r].route = "GET /courses/:id" /\ reqs[r].pc = "done"
      /\ reqs[r].courseId \notin DOMAIN courses )
    => reqs[r].status = 404 /\ reqs[r].out = <<>>

\* The classes of failure, by what went wrong.
FailedReqs == {r \in Reqs : reqs[r].pc = "done" /\ reqs[r].status \notin {200, 201}}
FailedAuthReqs ==
  {r \in AuthReqs : authReqs[r].pc = "done" /\ authReqs[r].status \notin {200, 201}}
ValidationMessages ==
  {"Validation failed", "Invalid email format",
   "Password must be at least 8 characters long", "Invalid promo code",
   "Promo code required for paid courses"}
AuthMessages ==
  {"Authorization header missing",
   "Invalid authorization format. Expected: Bearer <token>",
   "Invalid or expired token", "Authentication failed", "Invalid credentials"}
NotFoundMessages == {"Course not found", "Route GET /unknown not found"}
ConflictMessages == {"User already subscribed to this course", "Email already exists"}
StatusOfMessage(error) ==
  IF error \in ValidationMessages THEN 400
  ELSE IF error \in AuthMessages THEN 401
  ELSE IF error \in NotFoundMessages THEN 404
  ELSE IF error \in ConflictMessages THEN 409
  ELSE 500
\* The request asks for a course that is not stored.
NoSuchCourse(q) ==
  /\ q.route \in {"GET /courses/:id", "POST /subscribe"} /\ q.handler
  /\ q.courseId \notin DOMAIN courses
\* The request asks for a subscription its user already has.
AlreadySubscribed(q) ==
  q.route = "POST /subscribe" /\ q.handler /\ SubscriptionsOf(q.userId, q.courseId) # {}
\* Signup r asks for an email another user has.
EmailTaken(r) ==
  /\ authReqs[r].route = "POST /auth/signup"
  /\ \E u \in users : u.email = authReqs[r].email /\ u.id # NewUserId(r)

\* C18: the status of a failed request is the one of its class of failure:
\* 400 with a message of validation, 401 with one of authentication, 404
\* with one of not-found, 409 with one of conflict, and 500 with 'Internal
\* server error' only for a failure of none of these classes: not for a
\* course that is not stored, a subscription that exists, an email taken.
C18_StatusByClass ==
  /\ \A r \in FailedReqs :
       /\ reqs[r].status = StatusOfMessage(reqs[r].error)
       /\ reqs[r].status = 500 =>
            /\ reqs[r].error = "Internal server error"
            /\ ~NoSuchCourse(reqs[r]) /\ ~AlreadySubscribed(reqs[r])
  /\ \A r \in FailedAuthReqs :
       /\ authReqs[r].status = StatusOfMessage(authReqs[r].error)
       /\ authReqs[r].status = 500 =>
            authReqs[r].error = "Internal server error" /\ ~EmailTaken(r)

(***************************************************************************)
(* SpecOps: every operation of the services (signup, login, getAllCourses, *)
(* getCourseById, subscribe, getUserSubscriptions), at most MaxOps         *)
(* requests over MaxOpsTime days, while the price of a course is changed   *)
(* from outside (the seed or an administrator writing to courses).         *)
(***************************************************************************)
OpsPrices == {9999, 14999}

\* UPDATE courses SET price = p WHERE id = c, from outside the server.
UpdateCoursePrice(c, prices) ==
  /\ c \in DOMAIN courses
  /\ \E p \in prices : p # courses[c] /\ courses' = [courses EXCEPT ![c] = p]
  /\ UNCHANGED <<users, subscriptions, now, reqs, authReqs, client, page>>

InitOps ==
  /\ users = SeedUsers
  /\ courses = SeedCourses
  /\ subscriptions = {SubscriptionRow(0, "u1", FreeCourse, 0, 0)}
  /\ now = 0
  /\ reqs = [r \in 1..NumReqs |-> IdleReq]
  /\ authReqs = [r \in 1..NumAuthReqs |-> IdleAuthReq]
  /\ client = FreshClient
  /\ page = NoPage

NextOps ==
  \/ now < MaxOpsTime /\ Tick
  \/ UpdateCoursePrice(PaidCourse, OpsPrices)
  \/ \E r \in 1..NumReqs :
       \/ Admit(reqs, r)
          /\ PostSubscribe(r, {Header("Bearer", generateToken("u1", 0))},
                           {FreeCourse, PaidCourse}, {NoPromo, Promo(VALID_PROMO_CODE)})
       \/ Admit(reqs, r) /\ GetMyCourses(r, IssuedHeaders)
       \/ Admit(reqs, r) /\ GetCourses(r)
       \/ Admit(reqs, r) /\ GetCourseById(r, {PaidCourse})
       \/ DbCheck(r)
       \/ DbCourse(r)
       \/ DbInsert(r)
       \/ DbList(r)
       \/ DbGetAll(r)
       \/ DbGetById(r)
  \/ \E r \in 1..NumAuthReqs :
       \/ Admit(authReqs, r) /\ PostSignup(r, {FreshEmail}, {Password123})
       \/ Admit(authReqs, r) /\ PostLogin(r, {Test1Email}, {Password123})
       \/ DbExists(r)
       \/ DbInsertUser(r)
       \/ DbFind(r)

SpecOps == InitOps /\ [][NextOps]_vars

\* C14: a persisted subscription stays: every step of every operation of
\* the services leaves each row of subscriptions in the table with the same
\* pricePaid and subscribedAt.
C14_Absorbing == [][\A s \in subscriptions : s \in subscriptions']_vars

\* A request subscribed its user; on a later day the same user asked again
\* for the same course and was refused, and the row stands as it was written.
C14_Witness ==
  \E r1, r2 \in Reqs, s \in subscriptions :
    /\ r1 # r2 /\ IsSubscribeCall(reqs[r1]) /\ IsSubscribeCall(reqs[r2])
    /\ SamePair(reqs[r1], reqs[r2])
    /\ reqs[r1].status = 201 /\ reqs[r1].out = <<s>>
    /\ reqs[r2].pc = "done" /\ reqs[r2].status = 409
    /\ reqs[r2].at > s.subscribedAt
    /\ s.pricePaid = reqs[r1].pricePaid /\ s.courseId = PaidCourse

\* C15: the list getUserSubscriptions returns is ordered most recent first:
\* of two entries the earlier in the list has the greater or equal
\* subscribedAt.
C15_MostRecentFirst ==
  \A r \in Reqs :
    (reqs[r].route = "GET /my-courses" /\ reqs[r].pc = "done" /\ reqs[r].status = 200)
    => \A i, j \in 1..Len(reqs[r].out) :
         i < j => reqs[r].out[i].subscribedAt >= reqs[r].out[j].subscribedAt

\* A list of two subscriptions of different days was returned.
C15_Witness ==
  \E r \in Reqs :
    /\ reqs[r].route = "GET /my-courses" /\ reqs[r].status = 200
    /\ Len(reqs[r].out) = 2
    /\ reqs[r].out[1].subscribedAt > reqs[r].out[2].subscribedAt

\* C16: the list returned by getUserSubscriptions carries, for each
\* subscription, the pricePaid of its row, which is the price its subscribe
\* call computed, and the course's price as stored when the list is read.
C16_Entry(e) ==
  /\ e.course.price = courses[e.courseId]
  /\ \E s \in subscriptions :
       /\ s.id = e.id /\ s.pricePaid = e.pricePaid
       /\ s.id \in Reqs => s.pricePaid = reqs[s.id].pricePaid

C16_HistoricalAndLive ==
  [][\A r \in Reqs :
       (reqs[r].pc = "list" /\ reqs'[r].pc = "done")
       => \A i \in 1..Len(reqs'[r].out) : C16_Entry(reqs'[r].out[i])]_vars

\* A user subscribed to the paid course at its seeded price, the price was
\* then changed, and the list shows the price paid then and the price now.
C16_Witness ==
  \E r \in Reqs, i \in 1..2 :
    /\ reqs[r].route = "GET /my-courses" /\ reqs[r].status = 200
    /\ i <= Len(reqs[r].out)
    /\ reqs[r].out[i].courseId = PaidCourse
    /\ reqs[r].out[i].pricePaid = calculateDiscountedPrice(SeedCourses[PaidCourse], PROMO_DISCOUNT)
    /\ reqs[r].out[i].course.price = 14999
    /\ courses[PaidCourse] = 14999

\* C19 as stated: a subscribe call for a paid course fails with 'Promo code
\* required for paid courses' when no promo code is supplied and with
\* 'Invalid promo code' when any string other than "BFSALE25" is supplied.
C19_Original ==
  \A r \in Reqs :
    (BadPromoPaid(reqs[r]) /\ reqs[r].pc = "done") =>
      reqs[r].error = IF ~reqs[r].promo.present
                        THEN "Promo code required for paid courses"
                        ELSE "Invalid promo code"

\* C19 amended: such a call, by a user not yet subscribed to the course,
\* fails (400) with 'Promo code required for paid courses' when no promo
\* code or the empty string is supplied, and with 'Invalid promo code' when
\* any non-empty string other than "BFSALE25" is supplied; a user already
\* subscribed gets the conflict (409) whatever the promo code.
C19_Amended ==
  \A r \in Reqs :
    (BadPromoPaid(reqs[r]) /\ reqs[r].pc = "done") =>
      \/ /\ reqs[r].status = 400
         /\ reqs[r].error = IF ~reqs[r].promo.present \/ reqs[r].promo.code = ""
                              THEN "Promo code required for paid courses"
                              ELSE "Invalid promo code"
      \/ /\ reqs[r].status = 409
         /\ reqs[r].error = "User already subscribed to this course"
         /\ isUserSubscribed(reqs[r].userId, reqs[r].courseId)

\* A call with the empty string as promo code was told that a promo code is
\* required, and one with "bfsale25" that its promo code is invalid.
C19_Witness ==
  \E r1, r2 \in Reqs :
    /\ BadPromoPaid(reqs[r1]) /\ reqs[r1].promo = Promo("")
    /\ reqs[r1].status = 400
    /\ reqs[r1].error = "Promo code required for paid courses"
    /\ BadPromoPaid(reqs[r2]) /\ reqs[r2].promo = Promo("bfsale25")
    /\ reqs[r2].status = 400 /\ reqs[r2].error = "Invalid promo code"

(***************************************************************************)
(* SpecInteg: subscribe and my-courses requests while users and courses    *)
(* are deleted from outside the server; the foreign keys of subscriptions  *)
(* are declared ON DELETE CASCADE.                                         *)
(***************************************************************************)
\* DELETE FROM users WHERE id = u.
DeleteUser(u) ==
  /\ \E row \in users : row.id = u
  /\ users' = {row \in users : row.id # u}
  /\ subscriptions' = {s \in subscriptions : s.userId # u}
  /\ UNCHANGED <<courses, now, reqs, authReqs, client, page>>

\* DELETE FROM courses WHERE id = c.
DeleteCourse(c) ==
  /\ c \in DOMAIN courses
  /\ courses' = [x \in DOMAIN courses \ {c} |-> courses[x]]
  /\ subscriptions' = {s \in subscriptions : s.courseId # c}
  /\ UNCHANGED <<users, now, reqs, authReqs, client, page>>

InitInteg ==
  /\ users = SeedUsers
  /\ courses = SeedCourses
  /\ subscriptions = {}
  /\ now = 0
  /\ reqs = [r \in 1..NumReqs |-> IdleReq]
  /\ authReqs = [r \in 1..NumAuthReqs |-> IdleAuthReq]
  /\ client = FreshClient
  /\ page = NoPage

NextInteg ==
  \/ \E u \in UserIds : DeleteUser(u)
  \/ \E c \in {FreeCourse, PaidCourse} : DeleteCourse(c)
  \/ \E r \in 1..NumReqs :
       \/ Arrived(reqs, r)
          /\ PostSubscribe(r, IssuedHeaders, {FreeCourse, PaidCourse},
                           {Promo(VALID_PROMO_CODE)})
       \/ Arrived(reqs, r) /\ GetMyCourses(r, IssuedHeaders)
       \/ DbCheck(r)
       \/ DbCourse(r)
       \/ DbInsert(r)
       \/ DbList(r)

SpecInteg == InitInteg /\ [][NextInteg]_vars

\* C20: in every reachable state each row of subscriptions has the id of a
\* stored user and of a stored course: also after a user or a course was
\* deleted, and also when a subscribe call comes with the token of a user
\* who has been deleted, or for a course deleted while the call runs.
C20_ReferentialIntegrity ==
  \A s \in subscriptions :
    /\ \E u \in users : u.id = s.userId
    /\ s.courseId \in DOMAIN courses

\* A user subscribed and was then deleted, and the row went with the user;
\* a later subscribe call with that user's token, for the other course,
\* which is stored, was refused by the database and left no row.
C20_Witness ==
  \E r1, r2 \in Reqs :
    /\ IsSubscribeCall(reqs[r1]) /\ reqs[r1].status = 201
    /\ IsSubscribeCall(reqs[r2]) /\ reqs[r2].status = 500
    /\ reqs[r1].userId = reqs[r2].userId
    /\ reqs[r1].courseId # reqs[r2].courseId
    /\ reqs[r2].courseId \in DOMAIN courses
    /\ \A u \in users : u.id # reqs[r1].userId
    /\ \A s \in subscriptions : s.id \notin {r1, r2}

\* What a subscribe call gets when it runs alone on the seeded database.
AloneStatus(q) ==
  IF q.courseId \notin DOMAIN SeedCourses THEN 404
  ELSE IF SeedCourses[q.courseId] = 0 THEN 201
  ELSE IF ~q.promo.present \/ q.promo.code = "" THEN 400
  ELSE IF q.promo.code # VALID_PROMO_CODE THEN 400
  ELSE 201
AlonePricePaid(q) ==
  IF SeedCourses[q.courseId] = 0 THEN 0
  ELSE calculateDiscountedPrice(SeedCourses[q.courseId], PROMO_DISCOUNT)
OnlyOfItsPair(r) ==
  \A r2 \in Reqs \ {r} : ~(IsSubscribeCall(reqs[r2]) /\ SamePair(reqs[r], reqs[r2]))

\* C21: a subscribe call that no other call shares its (userId, courseId)
\* with ends, in every interleaving with the other requests, as it would
\* alone: with the same status, and on success with the one row of its pair,
\* of the price it would have paid alone; on failure with no row.
C21_Independent ==
  \A r \in Reqs :
    (IsSubscribeCall(reqs[r]) /\ reqs[r].pc = "done" /\ OnlyOfItsPair(r)) =>
      /\ reqs[r].status = AloneStatus(reqs[r])
      /\ IF reqs[r].status = 201
           THEN SubscriptionsOf(reqs[r].userId, reqs[r].courseId) =
                  {SubscriptionRow(r, reqs[r].userId, reqs[r].courseId,
                                   AlonePricePaid(reqs[r]), 0)}
           ELSE SubscriptionsOf(reqs[r].userId, reqs[r].courseId) = {}

\* Two users subscribed to one course, and each got the row of its own pair.
C21_Witness ==
  \E r1, r2 \in Reqs :
    /\ r1 # r2 /\ IsSubscribeCall(reqs[r1]) /\ IsSubscribeCall(reqs[r2])
    /\ reqs[r1].courseId = PaidCourse /\ reqs[r2].courseId = PaidCourse
    /\ reqs[r1].userId # reqs[r2].userId
    /\ reqs[r1].status = 201 /\ reqs[r2].status = 201
    /\ Cardinality(subscriptions) = 2

\* C22: subscribe checks the existing subscription first, then the course,
\* then the price: the step that delivers the result of isUserSubscribed
\* ends the call of a subscribed user with 409 whatever its promo code is,
\* and the step that delivers the course row ends a call for an id that no
\* course has with 404 whatever its promo code is.
C22_Step(r) ==
  /\ (reqs[r].pc = "check" /\ isUserSubscribed(reqs[r].userId, reqs[r].courseId))
     => /\ reqs'[r].pc = "done" /\ reqs'[r].status = 409
        /\ reqs'[r].error = "User already subscribed to this course"
  /\ (reqs[r].pc = "course" /\ reqs[r].courseId \notin DOMAIN courses)
     => /\ reqs'[r].pc = "done" /\ reqs'[r].status = 404
        /\ reqs'[r].error = "Course not found"

C22_CheckOrder ==
  [][\A r \in Reqs : reqs'[r] # reqs[r] => C22_Step(r)]_vars

\* A user subscribed to the paid course; the same user's call without the
\* valid promo code, checked after that, got 409 and not 400.
C22_Witness ==
  \E r1, r2 \in Reqs :
    /\ r1 # r2 /\ IsSubscribeCall(reqs[r1]) /\ IsSubscribeCall(reqs[r2])
    /\ BadPromoPaid(reqs[r1]) /\ reqs[r1].status = 409
    /\ reqs[r2].status = 201 /\ SamePair(reqs[r1], reqs[r2])

\* C26: in every reachable state at most one row of users has a given
\* email, also when two signups with one email both pass the SELECT before
\* either inserts.
C26_OneUserPerEmail ==
  \A u1, u2 \in users : u1.email = u2.email => u1 = u2

\* Two signups with one email both passed the SELECT; one inserted, and the
\* INSERT of the other was refused.
C26_Witness ==
  \E r1, r2 \in AuthReqs :
    /\ r1 # r2
    /\ authReqs[r1].route = "POST /auth/signup" /\ authReqs[r2].route = "POST /auth/signup"
    /\ authReqs[r1].email = authReqs[r2].email
    /\ authReqs[r1].status = 201 /\ authReqs[r2].status = 500
    /\ Cardinality({u \in users : u.email = authReqs[r1].email}) = 1

\* C27: the list getUserSubscriptions returns for user u has one entry for
\* each row of subscriptions whose userId is u, as the row stands when the
\* query runs, and no other entry.
C27_List(r) ==
  LET out == reqs'[r].out
      mine == {s \in subscriptions : s.userId = reqs[r].userId}
  IN  /\ Len(out) = Cardinality(mine)
      /\ \A s \in mine : \E i \in 1..Len(out) :
           /\ out[i].id = s.id /\ out[i].userId = s.userId
           /\ out[i].courseId = s.courseId /\ out[i].pricePaid = s.pricePaid
           /\ out[i].subscribedAt = s.subscribedAt

C27_ExactlyOwn ==
  [][\A r \in Reqs : (reqs[r].pc = "list" /\ reqs'[r].pc = "done") => C27_List(r)]_vars

\* The first user's list has the two subscriptions of that user, one of
\* them made by a request of this run.
C27_Witness ==
  \E r1, r2 \in Reqs :
    /\ reqs[r1].route = "GET /my-courses" /\ reqs[r1].status = 200
    /\ reqs[r1].userId = "u1" /\ Len(reqs[r1].out) = 2
    /\ reqs[r2].route = "POST /subscribe" /\ reqs[r2].status = 201
    /\ reqs[r2].userId = "u1"

(***************************************************************************)
(* SpecLive: at most MaxOps requests on the routes of the server; storage  *)
(* answers every query sent to it (weak fairness of each step that         *)
(* delivers a result).                                                     *)
(***************************************************************************)
LiveHeaders == {NoHeader, Header("Bearer", generateToken("u1", 0))}

NextLive ==
  \/ \E r \in 1..NumReqs :
       \/ Admit(reqs, r)
          /\ PostSubscribe(r, LiveHeaders, {FreeCourse, PaidCourse, NoCourse}, {NoPromo})
       \/ Admit(reqs, r) /\ GetMyCourses(r, LiveHeaders)
       \/ Admit(reqs, r) /\ GetCourses(r)
       \/ Admit(reqs, r) /\ GetCourseById(r, {PaidCourse, NotUuid})
       \/ DbCheck(r)
       \/ DbCourse(r)
       \/ DbInsert(r)
       \/ DbList(r)
       \/ DbGetAll(r)
       \/ DbGetById(r)
  \/ \E r \in 1..NumAuthReqs :
       \/ Admit(authReqs, r) /\ PostSignup(r, {FreshEmail}, {Password123})
       \/ Admit(authReqs, r) /\ PostLogin(r, {Test1Email}, {Password123, WrongPassword})
       \/ DbExists(r)
       \/ DbInsertUser(r)
       \/ DbFind(r)

StorageAnswers ==
  /\ \A r \in 1..NumReqs :
       /\ WF_vars(DbCheck(r)) /\ WF_vars(DbCourse(r)) /\ WF_vars(DbInsert(r))
       /\ WF_vars(DbList(r)) /\ WF_vars(DbGetAll(r)) /\ WF_vars(DbGetById(r))
  /\ \A r \in 1..NumAuthReqs :
       WF_vars(DbExists(r)) /\ WF_vars(DbInsertUser(r)) /\ WF_vars(DbFind(r))

SpecLive == InitErr /\ [][NextLive]_vars /\ StorageAnswers

\* C23: every request that has arrived is eventually answered, and an
\* answered request stays as it is: one response, no retry.
C23_Terminates ==
  /\ \A r \in 1..NumReqs : (reqs[r].pc # "idle") ~> (reqs[r].pc = "done")
  /\ \A r \in 1..NumAuthReqs : (authReqs[r].pc # "idle") ~> (authReqs[r].pc = "done")
  /\ [][/\ \A r \in 1..NumReqs : reqs[r].pc = "done" => reqs'[r] = reqs[r]
        /\ \A r \in 1..NumAuthReqs :
             authReqs[r].pc = "done" => authReqs'[r] = authReqs[r]]_vars

\* A subscribe call that went through its three queries and a signup that
\* went through its two have both been answered.
C23_Witness ==
  \E r \in Reqs, a \in AuthReqs :
    /\ reqs[r].route = "POST /subscribe" /\ reqs[r].pc = "done" /\ reqs[r].status = 201
    /\ authReqs[a].route = "POST /auth/signup" /\ authReqs[a].pc = "done"
    /\ authReqs[a].status = 201

(***************************************************************************)
(* ProtectedRoute (protected-route.tsx).  redirectTo is the prop: null     *)
(* when the page passes none.                                              *)
(***************************************************************************)
\* ProtectedRoute rendering its children while the auth state is loading.
ProtectedRouteRenderWhileLoading(authState) ==
  IF ~authState.isLoading /\ ~authState.isAuthenticated THEN "null" ELSE "children"

\* What ProtectedRoute returns: loadingComponent, null, or its children.
ProtectedRouteRender(authState) ==
  IF authState.isLoading THEN "loading"
  ELSE IF ~authState.isAuthenticated THEN "null"
  ELSE "children"

\* The default of the redirectTo parameter.
RedirectTo(prop) == IF prop = Null THEN "/login" ELSE prop[1]

\* The dependencies of the effect that auth state gives.
EffectDeps(authState) == Some(<<authState.isAuthenticated, authState.isLoading>>)

\* The components of the page render again with a new auth state; React
\* schedules the effect of ProtectedRoute when its dependencies changed.
Render(pg, authState) ==
  IF pg.view = "none" THEN pg
  ELSE [pg EXCEPT !.view = ProtectedRouteRender(authState),
                  !.deps = EffectDeps(authState),
                  !.effect = pg.effect \/ pg.deps # EffectDeps(authState)]

\* The router shows a location: /my-courses mounts ProtectedRoute, a course
\* page mounts CourseDetail with the course it fetched, any other location
\* mounts nothing of the model.
Mount(path, courseId, redirectTo, authState) ==
  IF path = "/my-courses"
    THEN [NoPage EXCEPT !.path = path, !.redirectTo = redirectTo,
                        !.view = ProtectedRouteRender(authState),
                        !.deps = EffectDeps(authState), !.effect = TRUE]
  ELSE IF path = "/courses"
    THEN [NoPage EXCEPT !.path = path, !.courseId = courseId,
                        !.price = courses[courseId],
                        !.discountedPrice = 2 * courses[courseId]]
  ELSE [NoPage EXCEPT !.path = path]

\* React runs the effects of a render before it handles the next event.
Settled == ~page.effect

\* The effect of ProtectedRoute runs: router.push(redirectTo) when the user
\* is known not to be authenticated.
ProtectedRouteEffect ==
  /\ page.effect
  /\ page' = IF ~client.authState.isLoading /\ ~client.authState.isAuthenticated
               THEN [Mount(RedirectTo(page.redirectTo), "", Null, client.authState)
                       EXCEPT !.toast = "Please log in to access this page"]
               ELSE [page EXCEPT !.effect = FALSE]
  /\ UNCHANGED <<users, courses, subscriptions, now, reqs, authReqs, client>>

\* The user follows a link of the navigation bar or of the home page.
Navigate(paths, courseIds, redirects) ==
  /\ Settled
  /\ ~client.authState.isLoading
  /\ \E path \in paths, courseId \in courseIds, redirectTo \in redirects :
       page' = Mount(path, courseId, redirectTo, client.authState)
  /\ UNCHANGED <<users, courses, subscriptions, now, reqs, authReqs, client>>

(***************************************************************************)
(* AuthProvider (auth-context.tsx) and the ApiClient (api.ts).             *)
(***************************************************************************)
Unauthenticated ==
  [user |-> Null, token |-> Null, isAuthenticated |-> FALSE, isLoading |-> FALSE]

NoStorage == [auth_token |-> Null, auth_user |-> Null]

\* initializeAuth, the effect of AuthProvider on mount.
initializeAuth(c) ==
  LET storedToken == c.localStorage.auth_token
      storedUser == c.localStorage.auth_user
  IN  IF storedToken # Null /\ storedUser # Null
        THEN LET parsed == JSONparse(storedUser[1])
             IN  IF parsed.threw
                   THEN [c EXCEPT !.localStorage = NoStorage, !.authState = Unauthenticated]
                   ELSE [c EXCEPT !.token = storedToken,
                                  !.authState = [user |-> Some(parsed.value),
                                                 token |-> storedToken,
                                                 isAuthenticated |-> TRUE,
                                                 isLoading |-> FALSE]]
        ELSE [c EXCEPT !.authState = Unauthenticated]

InitializeAuth ==
  /\ client.authState.isLoading
  /\ client' = initializeAuth(client)
  /\ page' = Render(page, client'.authState)
  /\ UNCHANGED <<users, courses, subscriptions, now, reqs, authReqs>>

\* login after api.login resolved with response: setItem twice, api.setToken,
\* setAuthState.
loginResolved(c, response) ==
  [c EXCEPT !.localStorage = [auth_token |-> Some(response.token),
                              auth_user |-> Some(JSONstringify(response.user))],
            !.token = Some(response.token),
            !.authState = [user |-> Some(response.user), token |-> Some(response.token),
                           isAuthenticated |-> TRUE, isLoading |-> FALSE]]

\* signup after api.signup resolved: the same four statements.
signupResolved(c, response) ==
  [c EXCEPT !.localStorage = [auth_token |-> Some(response.token),
                              auth_user |-> Some(JSONstringify(response.user))],
            !.token = Some(response.token),
            !.authState = [user |-> Some(response.user), token |-> Some(response.token),
                           isAuthenticated |-> TRUE, isLoading |-> FALSE]]

\* logout that leaves the token in the ApiClient.
logoutKeepsApiToken(c) ==
  [c EXCEPT !.localStorage = NoStorage, !.authState = Unauthenticated]

logout(c) ==
  [c EXCEPT !.localStorage = NoStorage, !.token = Null, !.authState = Unauthenticated]

\* The request interceptor of the ApiClient: the Authorization header of a
\* request sent now.
Interceptor(c) == IF c.token # Null THEN Header("Bearer", c.token[1]) ELSE NoHeader

\* The login page calls login(email, password): api.login posts the request.
Login(k, emails, passwords) ==
  /\ Settled
  /\ ~client.authState.isLoading
  /\ client.auth[k].state = "none"
  /\ \E email \in emails, password \in passwords :
       client' = [client EXCEPT !.auth[k] =
                    [NoCall EXCEPT !.state = "sent", !.fn = "login", !.email = email,
                                   !.password = password, !.hdr = Interceptor(client)]]
  /\ UNCHANGED <<users, courses, subscriptions, now, reqs, authReqs, page>>

\* The signup page calls signup(email, password, name).
Signup(k, emails, passwords) ==
  /\ Settled
  /\ ~client.authState.isLoading
  /\ client.auth[k].state = "none"
  /\ \E email \in emails, password \in passwords :
       client' = [client EXCEPT !.auth[k] =
                    [NoCall EXCEPT !.state = "sent", !.fn = "signup", !.email = email,
                                   !.password = password, !.hdr = Interceptor(client)]]
  /\ UNCHANGED <<users, courses, subscriptions, now, reqs, authReqs, page>>

\* The body of a 2xx answer of the auth routes: { token, user }.
AuthBody(q) == [token |-> q.token, user |-> UserDTO(q.userId, q.email)]

\* axios resolves a response whose status is 2xx and rejects any other.
Is2xx(status) == status >= 200 /\ status < 300

\* The answer to api.login arrives: login stores the session, or rethrows
\* the ApiError of the response interceptor.
LoginReturns(k) ==
  /\ Settled
  /\ client.auth[k].state = "sent" /\ client.auth[k].fn = "login"
  /\ authReqs[k].pc = "done"
  /\ client' = IF Is2xx(authReqs[k].status)
       THEN [loginResolved(client, AuthBody(authReqs[k]))
               EXCEPT !.auth[k].state = "resolved", !.auth[k].status = authReqs[k].status]
       ELSE [client EXCEPT !.auth[k].state = "rejected",
                           !.auth[k].status = authReqs[k].status]
  /\ page' = Render(page, client'.authState)
  /\ UNCHANGED <<users, courses, subscriptions, now, reqs, authReqs>>

SignupReturns(k) ==
  /\ Settled
  /\ client.auth[k].state = "sent" /\ client.auth[k].fn = "signup"
  /\ authReqs[k].pc = "done"
  /\ client' = IF Is2xx(authReqs[k].status)
       THEN [signupResolved(client, AuthBody(authReqs[k]))
               EXCEPT !.auth[k].state = "resolved", !.auth[k].status = authReqs[k].status]
       ELSE [client EXCEPT !.auth[k].state = "rejected",
                           !.auth[k].status = authReqs[k].status]
  /\ page' = Render(page, client'.authState)
  /\ UNCHANGED <<users, courses, subscriptions, now, reqs, authReqs>>

\* No response is received: handleError gives status 0 and the call rejects.
NetworkError(k) ==
  /\ Settled
  /\ client.auth[k].state = "sent"
  /\ client' = [client EXCEPT !.auth[k].state = "rejected", !.auth[k].status = 0]
  /\ UNCHANGED <<users, courses, subscriptions, now, reqs, authReqs, page>>

\* The navigation bar calls logout().
Logout ==
  /\ Settled
  /\ ~client.authState.isLoading
  /\ client' = logout(client)
  /\ page' = Render(page, client'.authState)
  /\ UNCHANGED <<users, courses, subscriptions, now, reqs, authReqs>>

\* The user reloads the tab: the modules and the components start anew,
\* localStorage stays, and no callback of the old document runs any more.
Dropped(call) == IF call.state = "sent" THEN [call EXCEPT !.state = "dropped"] ELSE call

Reload ==
  /\ ~client.authState.isLoading
  /\ client' = [client EXCEPT !.authState = InitialAuthState, !.token = Null,
                              !.redirects = 0,
                              !.auth = [k \in 1..NumAuthReqs |-> Dropped(client.auth[k])],
                              !.subs = [k \in 1..NumReqs |-> Dropped(client.subs[k])]]
  /\ page' = Mount(page.path, page.courseId, page.redirectTo, InitialAuthState)
  /\ UNCHANGED <<users, courses, subscriptions, now, reqs, authReqs>>

(***************************************************************************)
(* SpecSession: one tab against the auth routes.  The user logs in, signs  *)
(* up, logs out, reloads and moves between the home page and /my-courses;  *)
(* call k of the ApiClient is request k of the server.                     *)
(***************************************************************************)
SessionPaths == {"/", "/my-courses"}
SessionRedirects == {Null, Some("/")}

\* Calls are numbered in the order they are made.
Called(calls, k) == IF k = 1 THEN TRUE ELSE calls[k - 1].state # "none"

NextSession ==
  \/ InitializeAuth
  \/ ProtectedRouteEffect
  \/ Navigate(SessionPaths, {FreeCourse}, SessionRedirects)
  \/ Logout
  \/ Reload
  \/ \E k \in 1..NumAuthReqs :
       \/ Called(client.auth, k) /\ Login(k, {Test1Email}, {Password123, WrongPassword})
       \/ Called(client.auth, k) /\ Signup(k, {Test1Email, FreshEmail}, {Password123})
       \/ /\ client.auth[k].state # "none" /\ client.auth[k].fn = "login"
          /\ PostLogin(k, {client.auth[k].email}, {client.auth[k].password})
       \/ /\ client.auth[k].state # "none" /\ client.auth[k].fn = "signup"
          /\ PostSignup(k, {client.auth[k].email}, {client.auth[k].password})
       \/ DbFind(k)
       \/ DbExists(k)
       \/ DbInsertUser(k)
       \/ LoginReturns(k)
       \/ SignupReturns(k)
       \/ NetworkError(k)

SpecSession == InitErr /\ [][NextSession]_vars

\* isAuthenticated says that user and token are there.
C30_Flags(c) ==
  c.authState.isAuthenticated <=> (c.authState.user # Null /\ c.authState.token # Null)

\* The ApiClient and localStorage agree with an auth state that is loaded.
C30_Stored(c) ==
  /\ c.token = c.authState.token
  /\ c.authState.isAuthenticated =>
       /\ c.localStorage.auth_token = c.authState.token
       /\ c.localStorage.auth_user = Some(JSONstringify(c.authState.user[1]))
  /\ ~c.authState.isAuthenticated => c.localStorage = NoStorage

C30_State(c) == C30_Flags(c) /\ (~c.authState.isLoading => C30_Stored(c))

\* C30: isAuthenticated is true exactly when user and token are non-null;
\* once the auth state is loaded, and so after every login, signup and
\* logout, the token of the ApiClient is authState.token and localStorage
\* holds the token and the user exactly when authenticated; a login or
\* signup that fails changes none of authState, localStorage and the token
\* of the ApiClient.
C30_Consistent ==
  [][/\ C30_State(client) /\ C30_State(client')
     /\ \A k \in 1..NumAuthReqs :
          client.auth[k].state = "sent" /\ client'.auth[k].state = "rejected" =>
            /\ client'.authState = client.authState
            /\ client'.localStorage = client.localStorage
            /\ client'.token = client.token]_vars

\* A login was stored, a later login with the wrong password was answered
\* 401, and the session of the first login is still there.
C30_Witness ==
  \E k1, k2 \in 1..NumAuthReqs :
    /\ client.auth[k1].state = "resolved"
    /\ client.auth[k2].state = "rejected" /\ client.auth[k2].status = 401
    /\ client.authState.isAuthenticated
    /\ client.token = Some(authReqs[k1].token)
    /\ client.localStorage.auth_token = Some(authReqs[k1].token)

\* ProtectedRoute is mounted and what it shows fits the auth state; when the
\* user is known not to be authenticated its effect is due.
C25_View ==
  page.view # "none" =>
    /\ page.view = "children" =>
         ~client.authState.isLoading /\ client.authState.isAuthenticated
    /\ client.authState.isLoading => page.view = "loading"
    /\ ~client.authState.isLoading /\ ~client.authState.isAuthenticated =>
         page.view = "null" /\ page.effect

\* C25: ProtectedRoute shows its children only when isLoading is false and
\* isAuthenticated is true, shows the loading component while isLoading,
\* and otherwise shows nothing and its effect navigates to redirectTo,
\* /login when the prop is not given.
C25_ProtectedRoute ==
  [][/\ C25_View /\ C25_View'
     /\ (/\ page.effect /\ page' # page /\ client' = client
         /\ ~client.authState.isLoading /\ ~client.authState.isAuthenticated)
        => page'.path = RedirectTo(page.redirectTo)]_vars

\* A user who had logged in is on /my-courses after a logout: ProtectedRoute
\* shows nothing and is about to redirect to the default location.
C25_Witness ==
  /\ page.path = "/my-courses" /\ page.view = "null" /\ page.effect
  /\ page.redirectTo = Null
  /\ \E k \in 1..NumAuthReqs : client.auth[k].state = "resolved"

(***************************************************************************)
(* PromoCodeInput (promo-code-input.tsx) inside CourseDetail.               *)
(***************************************************************************)
\* What the user may have typed into the promo code field.
PromoTexts == {"", " ", "BFSALE25", " BFSALE25", "bfsale25"}

\* String.prototype.trim on the texts of the field.
trim(text) ==
  IF text = " " THEN ""
  ELSE IF text = " BFSALE25" THEN "BFSALE25"
  ELSE text

isFree(price) == price = 0
isPaid(price) == price > 0

\* calculateDiscountedPrice of PromoCodeInput, price * 0.5, in half cents.
inputDiscountedPrice(originalPrice) == (2 * originalPrice) \div 2

\* handlePromoApplied of CourseDetail, the onPromoApplied of the input.
handlePromoApplied(pg, isValid, price) ==
  [pg EXCEPT !.isPromoValid = isValid, !.discountedPrice = price]

\* handleInputChange that resets the input and does not tell CourseDetail.
handleInputChangeNoCallback(pg, value) ==
  IF pg.input.isPromoValid \/ pg.input.promoError # ""
    THEN [pg EXCEPT !.input.promoCode = value, !.input.isPromoValid = FALSE,
                    !.input.promoError = ""]
    ELSE [pg EXCEPT !.input.promoCode = value]

handleInputChange(pg, value) ==
  IF pg.input.isPromoValid \/ pg.input.promoError # ""
    THEN handlePromoApplied([pg EXCEPT !.input.promoCode = value,
                                       !.input.isPromoValid = FALSE,
                                       !.input.promoError = ""],
                            FALSE, 2 * pg.price)
    ELSE [pg EXCEPT !.input.promoCode = value]

\* handleApplyPromo up to setTimeout: the callback closes over promoCode.
handleApplyPromo(pg) ==
  [pg EXCEPT !.input.isApplying = TRUE, !.input.promoError = "",
             !.input.timer = Some(pg.input.promoCode)]

\* The callback of handleApplyPromo 300 ms later.
applyPromoTimeout(pg) ==
  LET trimmedCode == trim(pg.input.timer[1])
  IN  IF trimmedCode = VALID_PROMO_CODE
        THEN [handlePromoApplied(pg, TRUE, inputDiscountedPrice(pg.price))
                EXCEPT !.input.isPromoValid = TRUE, !.input.promoError = "",
                       !.input.isApplying = FALSE, !.input.timer = Null,
                       !.toast = "Promo code applied! You saved 50%"]
        ELSE [handlePromoApplied(pg, FALSE, 2 * pg.price)
                EXCEPT !.input.isPromoValid = FALSE,
                       !.input.promoError = "Invalid promo code. Please try again.",
                       !.input.isApplying = FALSE, !.input.timer = Null,
                       !.toast = "Invalid promo code. Please try again."]

\* PromoCodeInput is rendered: a course page of a paid course.
InputShown == page.path = "/courses" /\ isPaid(page.price)

\* The user changes the text of the field, which is disabled while applying.
HandleInputChange(texts) ==
  /\ Settled
  /\ InputShown /\ ~page.input.isApplying
  /\ \E value \in texts \ {page.input.promoCode} : page' = handleInputChange(page, value)
  /\ UNCHANGED <<users, courses, subscriptions, now, reqs, authReqs, client>>

\* The user clicks Apply Promo Code or presses Enter in the field.
HandleApplyPromo ==
  /\ Settled
  /\ InputShown /\ ~page.input.isApplying /\ trim(page.input.promoCode) # ""
  /\ page' = handleApplyPromo(page)
  /\ UNCHANGED <<users, courses, subscriptions, now, reqs, authReqs, client>>

ApplyPromoTimeout ==
  /\ Settled
  /\ page.input.timer # Null
  /\ page' = applyPromoTimeout(page)
  /\ UNCHANGED <<users, courses, subscriptions, now, reqs, authReqs, client>>

(***************************************************************************)
(* CourseDetail (course-detail.tsx): handleSubscribe.                      *)
(***************************************************************************)
\* The promo code handleSubscribe would send if it were the text of the field.
subscribePromoCodeEntered(pg) ==
  IF isPaid(pg.price) /\ pg.isPromoValid THEN Promo(pg.input.promoCode) ELSE NoPromo

\* const promoCode = isPaid && isPromoValid ? 'BFSALE25' : undefined.
subscribePromoCode(pg) ==
  IF isPaid(pg.price) /\ pg.isPromoValid THEN Promo("BFSALE25") ELSE NoPromo

\* handleSubscribe without its check of isAuthenticated.
handleSubscribeNoAuthCheck(pg, c, k) ==
  IF isPaid(pg.price) /\ ~pg.isPromoValid
    THEN [page |-> [pg EXCEPT !.toast = "Please apply a valid promo code to subscribe"],
          client |-> c]
  ELSE [page |-> [pg EXCEPT !.isSubscribing = TRUE, !.awaited = @ \cup {k}],
        client |-> [c EXCEPT !.subs[k] =
                      [NoCall EXCEPT !.state = "sent", !.fn = "subscribe",
                                     !.courseId = pg.courseId,
                                     !.promo = subscribePromoCode(pg),
                                     !.hdr = Interceptor(c)]]]

\* handleSubscribe up to its await: what becomes of the page and the client
\* when call k of the ApiClient is the one it may make.
handleSubscribe(pg, c, k) ==
  IF ~c.authState.isAuthenticated
    THEN [page |-> [Mount("/login", "", Null, c.authState)
                      EXCEPT !.toast = "Please log in to subscribe to courses"],
          client |-> c]
  ELSE IF isPaid(pg.price) /\ ~pg.isPromoValid
    THEN [page |-> [pg EXCEPT !.toast = "Please apply a valid promo code to subscribe"],
          client |-> c]
  ELSE [page |-> [pg EXCEPT !.isSubscribing = TRUE, !.awaited = @ \cup {k}],
        client |-> [c EXCEPT !.subs[k] =
                      [NoCall EXCEPT !.state = "sent", !.fn = "subscribe",
                                     !.courseId = pg.courseId,
                                     !.promo = subscribePromoCode(pg),
                                     !.hdr = Interceptor(c)]]]

\* The Subscribe button of the page can be clicked: the one of a free
\* course unless isSubscribing, the one of a paid course unless
\* !isPromoValid || isSubscribing.
SubscribeEnabled(pg) ==
  /\ pg.path = "/courses"
  /\ \/ isFree(pg.price) /\ ~pg.isSubscribing
     \/ isPaid(pg.price) /\ ~(~pg.isPromoValid \/ pg.isSubscribing)

\* The user clicks Subscribe Now.
HandleSubscribe(k) ==
  /\ Settled
  /\ SubscribeEnabled(page)
  /\ client.subs[k].state = "none"
  /\ LET after == handleSubscribe(page, client, k)
     IN  page' = after.page /\ client' = after.client
  /\ UNCHANGED <<users, courses, subscriptions, now, reqs, authReqs>>

\* The answer to api.subscribe arrives: the toast, the timer of the redirect
\* after a success, and setIsSubscribing(false) in the CourseDetail that
\* made the call if it is still mounted.
SubscribeReturns(k) ==
  /\ Settled
  /\ client.subs[k].state = "sent"
  /\ reqs[k].pc = "done"
  /\ LET ok == Is2xx(reqs[k].status)
         message == IF ok THEN "Successfully subscribed"
                    ELSE IF reqs[k].error # "" THEN reqs[k].error
                    ELSE "Failed to subscribe to course"
     IN  /\ client' = [client EXCEPT
                         !.subs[k].state = IF ok THEN "resolved" ELSE "rejected",
                         !.subs[k].status = reqs[k].status,
                         !.redirects = IF ok THEN @ + 1 ELSE @]
         /\ page' = [page EXCEPT !.toast = message,
                                 !.isSubscribing = IF k \in page.awaited THEN FALSE ELSE @]
  /\ UNCHANGED <<users, courses, subscriptions, now, reqs, authReqs>>

\* A timer of a successful handleSubscribe fires: router.push('/my-courses').
RedirectTimeout ==
  /\ Settled
  /\ client.redirects > 0
  /\ client' = [client EXCEPT !.redirects = @ - 1]
  /\ page' = Mount("/my-courses", "", Null, client.authState)
  /\ UNCHANGED <<users, courses, subscriptions, now, reqs, authReqs>>

(***************************************************************************)
(* SpecPage: a tab of a browser in which test1 logged in earlier opens the *)
(* course pages; the user types and applies promo codes, subscribes and    *)
(* logs out, and call k of api.subscribe is request k of the server.       *)
(***************************************************************************)
StoredSession ==
  [loginResolved(FreshClient,
                 [token |-> generateToken("u1", 0), user |-> UserDTO("u1", Test1Email)])
     EXCEPT !.authState = InitialAuthState, !.token = Null]

InitPage ==
  /\ users = SeedUsers
  /\ courses = SeedCourses
  /\ subscriptions = {}
  /\ now = 0
  /\ reqs = [r \in 1..NumReqs |-> IdleReq]
  /\ authReqs = [r \in 1..NumAuthReqs |-> IdleAuthReq]
  /\ client = StoredSession
  /\ page = NoPage

NextPage ==
  \/ InitializeAuth
  \/ Logout
  \/ Navigate({"/courses"}, {FreeCourse, PaidCourse}, {Null})
  \/ HandleInputChange(PromoTexts)
  \/ HandleApplyPromo
  \/ ApplyPromoTimeout
  \/ RedirectTimeout
  \/ ProtectedRouteEffect
  \/ \E k \in 1..NumReqs :
       \/ Called(client.subs, k) /\ HandleSubscribe(k)
       \/ /\ client.subs[k].state # "none"
          /\ PostSubscribe(k, {client.subs[k].hdr}, {client.subs[k].courseId},
                           {client.subs[k].promo})
       \/ DbCheck(k)
       \/ DbCourse(k)
       \/ DbInsert(k)
       \/ SubscribeReturns(k)

SpecPage == InitPage /\ [][NextPage]_vars

\* Call k of api.subscribe is made in this step.
SubscribeCalled(k) == client.subs[k].state = "none" /\ client'.subs[k].state = "sent"

\* C24: handleSubscribe calls api.subscribe only when the user is
\* authenticated and the course is free or a valid promo code is applied;
\* run for a user who is not authenticated it makes no call and navigates
\* to /login, and for a paid course without a valid promo code applied no
\* call is made.
C24_SubscribeGuard ==
  [][\A k \in 1..NumReqs :
       /\ SubscribeCalled(k) =>
            /\ client.authState.isAuthenticated
            /\ isFree(page.price) \/ page.isPromoValid
            /\ ~(isPaid(page.price) /\ ~page.isPromoValid)
       /\ HandleSubscribe(k) /\ ~client.authState.isAuthenticated =>
            client'.subs = client.subs /\ page'.path = "/login"]_vars

\* The user subscribed, logged out and clicked Subscribe Now on a course
\* page again: the page is /login and no second call was made.
C24_Witness ==
  /\ page.path = "/login" /\ page.toast = "Please log in to subscribe to courses"
  /\ client.subs[1].state = "resolved"
  /\ \A k \in 2..NumReqs : client.subs[k].state = "none"

\* The server has answered call k without refusing its promo code.
C28_Accepted(k) ==
  reqs[k].error \notin {"Invalid promo code", "Promo code required for paid courses"}

\* C28: when the input holds a text whose trimmed value is "BFSALE25", the
\* promo code is applied and the user subscribes, the promo code sent to
\* POST /subscribe is exactly "BFSALE25", which validatePromoCode accepts:
\* no call the page made is refused for its promo code.
C28_PromoAgrees ==
  [][\A k \in 1..NumReqs :
       /\ SubscribeCalled(k) /\ isPaid(page.price) =>
            /\ trim(page.input.promoCode) = "BFSALE25"
            /\ client'.subs[k].promo = Promo("BFSALE25")
            /\ validatePromoCode(client'.subs[k].promo.code).valid
       /\ client'.subs[k].state # "none" => C28_Accepted(k)']_vars

\* The user typed the code with a blank before it, applied it and
\* subscribed to the paid course: the server got "BFSALE25" and answered 201.
C28_Witness ==
  \E k \in 1..NumReqs :
    /\ k \in page.awaited /\ page.input.promoCode = " BFSALE25"
    /\ client.subs[k].state = "resolved"
    /\ reqs[k].promo = Promo("BFSALE25") /\ reqs[k].status = 201
    /\ reqs[k].courseId = PaidCourse

\* CourseDetail and PromoCodeInput hold the same isPromoValid.
C29_InStep(pg) == pg.isPromoValid = pg.input.isPromoValid

\* C29: after every event CourseDetail.isPromoValid equals
\* PromoCodeInput.isPromoValid, and an edit of the input after a valid
\* application sets both to false, so that the Subscribe button of the paid
\* course is disabled until the code is applied again.
C29_PromoInStep ==
  [][/\ C29_InStep(page) /\ C29_InStep(page')
     /\ page.input.isPromoValid /\ HandleInputChange(PromoTexts) =>
          /\ ~page'.isPromoValid /\ ~page'.input.isPromoValid
          /\ ~SubscribeEnabled(page')]_vars

\* The promo code was applied and the text edited afterwards: the last
\* toast is that of the application and neither component holds it valid.
C29_Witness ==
  /\ InputShown
  /\ page.toast = "Promo code applied! You saved 50%"
  /\ page.input.promoCode = "bfsale25"
  /\ ~page.isPromoValid /\ ~page.input.isPromoValid /\ ~SubscribeEnabled(page)

====
